---- MODULE Spec2Model ----
(***************************************************************************)
(* Model of the TicTacToe engine of src/tictactoe_library/game.py: the     *)
(* board, the win-line catalog, move validation and application, win and   *)
(* draw detection, the bot's move selector and the driving loop play().    *)
(*                                                                         *)
(* Four specifications are given.                                          *)
(*   SpecNew    the constructor TicTacToe(board_size, mode) on arguments   *)
(*              of any type and size.                                      *)
(*   SpecOps    one method call (_is_winner, _is_draw, _try_make_move,     *)
(*              _get_ai_move) on an arbitrary board of a size in           *)
(*              MinSize..MaxSize.                                          *)
(*   Spec       the driving loop play(): one step is one iteration of the  *)
(*              while-loop, with the console answers and the bot's random  *)
(*              draw as inputs.                                            *)
(*   SpecReset  Spec, and reset() called once play() has ended.            *)
(*                                                                         *)
(* Strings read from the console or passed as arguments are sequences of   *)
(* one-character strings.  A character that cannot be written in a module  *)
(* has a name: SUP2 stands for U+00B2 (SUPERSCRIPT TWO).                   *)
(***************************************************************************)
EXTENDS Integers, Sequences, FiniteSets

VARIABLES
    board_size,       \* self.board_size
    mode,             \* self.mode: "None", "True", "False"
    board,            \* self.board: [cell -> " " | "X" | "O"]
    reset_player,     \* self.reset_player
    winning_coords,   \* self.winning_coords: a line, or << >>
    current_player,   \* self.current_player
    change_bot_play,  \* self.change_bot_play: "player" | "bot"
    is_play_bot,      \* self.is_play_bot: "None", "True", "False"
    winner_count,     \* self.winner_count
    pos_str,          \* self.pos_str
    pc,               \* where the caller is: "new"/"constructed"/"failed" (SpecNew),
                      \* "call"/"done" (SpecOps), "loop"/"returned"/"crashed" (Spec)
    op,               \* the method called last ("None" before the first call)
    arg,              \* the argument of the last method call (SpecOps), of __init__ (SpecNew)
    ret,              \* value returned by the last method call ("None" if none)
    raised,           \* exception raised by the last call or loop iteration
    saved             \* records handed to _save_game_history by the last loop iteration

vars == << board_size, mode, board, reset_player, winning_coords, current_player,
           change_bot_play, is_play_bot, winner_count, pos_str, pc, op, arg, ret, raised,
           saved >>

-----------------------------------------------------------------------------
(* Program constants and model bounds *)

\* The smallest board size __init__ accepts.
MinSize == 2

\* The largest board size __init__ accepts.
MaxBoardSize == 9

\* The largest board size on which the model plays.
MaxSize == 3

Sizes == MinSize..MaxSize

Empty == " "
Marks == {"X", "O"}
CellValues == {Empty} \cup Marks

Cells(n) == (0..(n - 1)) \X (0..(n - 1))

EmptyBoard(n) == [cell \in Cells(n) |-> Empty]

-----------------------------------------------------------------------------
(* Exceptions (exceptions.py).  Every exception value carries the          *)
(* constructor arguments of its class; the unused ones keep their default. *)

\* Python's None where an exception carries no value
PyNone == [type |-> "NoneType", value |-> 0]

NoException ==
    [type |-> "None", position |-> 0, limit |-> 0, player |-> "", user_input |-> << >>,
     value |-> PyNone]

\* BoardSizeTypeError(value), value the argument __init__ was given
BoardSizeTypeError(value) ==
    [type |-> "BoardSizeTypeError", position |-> 0, limit |-> 0, player |-> "",
     user_input |-> << >>, value |-> value]

\* BoardSizeValueError(value)
BoardSizeValueError(value) ==
    [type |-> "BoardSizeValueError", position |-> 0, limit |-> 0, player |-> "",
     user_input |-> << >>, value |-> value]

CellOccupiedError(position, player) ==
    [type |-> "CellOccupiedError", position |-> position, limit |-> 0,
     player |-> player, user_input |-> << >>, value |-> PyNone]

InvalidPositionError(position, limit) ==
    [type |-> "InvalidPositionError", position |-> position, limit |-> limit,
     player |-> "", user_input |-> << >>, value |-> PyNone]

InvalidInputError(user_input) ==
    [type |-> "InvalidInputError", position |-> 0, limit |-> 0,
     player |-> "", user_input |-> user_input, value |-> PyNone]

\* Built-in exceptions, which are no TicTacToeError.
ValueError(user_input) ==
    [type |-> "ValueError", position |-> 0, limit |-> 0,
     player |-> "", user_input |-> user_input, value |-> PyNone]

TypeError ==
    [type |-> "TypeError", position |-> 0, limit |-> 0, player |-> "", user_input |-> << >>,
     value |-> PyNone]

\* The subclasses of InvalidConfigurationError
InvalidConfigurationError == {"BoardSizeTypeError", "BoardSizeValueError"}

TicTacToeError == {"CellOccupiedError", "InvalidPositionError", "InvalidInputError",
                   "BoardSizeTypeError", "BoardSizeValueError"}

-----------------------------------------------------------------------------
(* The win-line catalog *)

\* _generate_win_combinations without the anti-diagonal
generate_win_combinations_no_anti(n) ==
    LET rows_cols == [k \in 1..(2 * n) |->
                        LET i == (k - 1) \div 2
                        IN  IF k % 2 = 1
                            THEN [j \in 1..n |-> << i, j - 1 >>]
                            ELSE [j \in 1..n |-> << j - 1, i >>]]
        diag == [i \in 1..n |-> << i - 1, i - 1 >>]
    IN  rows_cols \o << diag >>

\* _generate_win_combinations with the main diagonal appended twice
generate_win_combinations_diagonal_twice(n) ==
    LET rows_cols == [k \in 1..(2 * n) |->
                        LET i == (k - 1) \div 2
                        IN  IF k % 2 = 1
                            THEN [j \in 1..n |-> << i, j - 1 >>]
                            ELSE [j \in 1..n |-> << j - 1, i >>]]
        diag == [i \in 1..n |-> << i - 1, i - 1 >>]
    IN  rows_cols \o << diag, diag >>

\* _generate_win_combinations with one loop for the rows and a second one
\* for the columns
generate_win_combinations_rows_first(n) ==
    LET rows == [i \in 1..n |-> [j \in 1..n |-> << i - 1, j - 1 >>]]
        cols == [i \in 1..n |-> [j \in 1..n |-> << j - 1, i - 1 >>]]
        diag == [i \in 1..n |-> << i - 1, i - 1 >>]
        anti == [i \in 1..n |-> << i - 1, n - 1 - (i - 1) >>]
    IN  rows \o cols \o << diag, anti >>

\* _generate_win_combinations: for each i the row i then the column i, then
\* the main diagonal, then the anti-diagonal.
generate_win_combinations(n) ==
    LET rows_cols == [k \in 1..(2 * n) |->
                        LET i == (k - 1) \div 2
                        IN  IF k % 2 = 1
                            THEN [j \in 1..n |-> << i, j - 1 >>]
                            ELSE [j \in 1..n |-> << j - 1, i >>]]
        diag == [i \in 1..n |-> << i - 1, i - 1 >>]
        anti == [i \in 1..n |-> << i - 1, n - 1 - (i - 1) >>]
    IN  rows_cols \o << diag, anti >>

\* list.count(symbol) of the values of a line
LineCount(b, combo, symbol) ==
    Cardinality({j \in 1..Len(combo) : b[combo[j]] = symbol})


-----------------------------------------------------------------------------
(* Strings: str.isdigit, int(str), str(int), str.lower *)

SUP2 == "SUP2"

DecimalChars == {"0", "1", "2", "3", "4", "5", "6", "7", "8", "9"}

\* Characters for which str.isdigit is true: the decimal digits and the
\* characters of Numeric_Type=Digit such as U+00B2.
DigitChars == DecimalChars \cup {SUP2}

DigitValue(c) ==
    CASE c = "0" -> 0 [] c = "1" -> 1 [] c = "2" -> 2 [] c = "3" -> 3 [] c = "4" -> 4
      [] c = "5" -> 5 [] c = "6" -> 6 [] c = "7" -> 7 [] c = "8" -> 8 [] c = "9" -> 9

DigitChar(d) ==
    CASE d = 0 -> "0" [] d = 1 -> "1" [] d = 2 -> "2" [] d = 3 -> "3" [] d = 4 -> "4"
      [] d = 5 -> "5" [] d = 6 -> "6" [] d = 7 -> "7" [] d = 8 -> "8" [] d = 9 -> "9"

\* str.isdigit(): non-empty and every character is a digit character
isdigit(s) == Len(s) > 0 /\ \A i \in 1..Len(s) : s[i] \in DigitChars

\* The characters int() skips around the number: the ASCII whitespace
\* '\t', '\n', '\x0b', '\x0c', '\r', ' ' and the Unicode spaces, of which the
\* model's alphabet holds U+0085 and U+00A0.  VT, NEL and NBSP stand for
\* U+000B, U+0085 and U+00A0.  (U+001C..U+001F are whitespace for str.strip
\* but not for int(), which raises ValueError on them.)
VT == "VT"

NEL == "NEL"

NBSP == "NBSP"

IntSpaceChars == {" ", "\t", "\n", VT, "\f", "\r", NEL, NBSP}

RECURSIVE StripLeft(_)
StripLeft(s) == IF Len(s) > 0 /\ s[1] \in IntSpaceChars THEN StripLeft(Tail(s)) ELSE s

RECURSIVE StripRight(_)
StripRight(s) ==
    IF Len(s) > 0 /\ s[Len(s)] \in IntSpaceChars
    THEN StripRight(SubSeq(s, 1, Len(s) - 1))
    ELSE s

RECURSIVE DecimalValue(_)
DecimalValue(s) ==
    IF Len(s) = 0 THEN 0
    ELSE IF s[Len(s)] = "_" THEN DecimalValue(SubSeq(s, 1, Len(s) - 1))
    ELSE 10 * DecimalValue(SubSeq(s, 1, Len(s) - 1)) + DigitValue(s[Len(s)])

\* int(s) for a string s: surrounding whitespace is stripped, one sign is
\* allowed, then decimal digits, optionally grouped by single underscores.
\* [ok |-> FALSE] stands for ValueError.
int(s) ==
    LET t == StripRight(StripLeft(s))
        signed == Len(t) > 0 /\ t[1] \in {"+", "-"}
        d == IF signed THEN Tail(t) ELSE t
        wellformed ==
            /\ Len(d) > 0
            /\ \A i \in 1..Len(d) : d[i] \in DecimalChars \cup {"_"}
            /\ d[1] # "_" /\ d[Len(d)] # "_"
            /\ \A i \in 1..(Len(d) - 1) : ~(d[i] = "_" /\ d[i + 1] = "_")
    IN  IF wellformed
        THEN [ok |-> TRUE,
              value |-> IF signed /\ t[1] = "-" THEN 0 - DecimalValue(d) ELSE DecimalValue(d)]
        ELSE [ok |-> FALSE, value |-> 0]

RECURSIVE NatStr(_)
NatStr(k) == IF k < 10 THEN << DigitChar(k) >> ELSE NatStr(k \div 10) \o << DigitChar(k % 10) >>

\* str(k) for an integer k
str(k) == IF k < 0 THEN << "-" >> \o NatStr(0 - k) ELSE NatStr(k)

\* The letters of the model's alphabet: the ASCII letters and the two
\* Cyrillic letters of the answers 'да' and 'д'.  CYR_D, CYR_A stand for
\* U+0434, U+0430 and CYR_CAP_D, CYR_CAP_A for U+0414, U+0410.
CYR_D == "CYR_D"

CYR_A == "CYR_A"

CYR_CAP_D == "CYR_CAP_D"

CYR_CAP_A == "CYR_CAP_A"

UpperLetters ==
    << "A", "B", "C", "D", "E", "F", "G", "H", "I", "J", "K", "L", "M",
       "N", "O", "P", "Q", "R", "S", "T", "U", "V", "W", "X", "Y", "Z",
       CYR_CAP_D, CYR_CAP_A >>

LowerLetters ==
    << "a", "b", "c", "d", "e", "f", "g", "h", "i", "j", "k", "l", "m",
       "n", "o", "p", "q", "r", "s", "t", "u", "v", "w", "x", "y", "z",
       CYR_D, CYR_A >>

\* str.lower() of one character: an upper-case letter becomes its lower-case
\* letter, every other character is kept
lower_char(c) ==
    IF \E i \in 1..Len(UpperLetters) : UpperLetters[i] = c
    THEN LowerLetters[CHOOSE i \in 1..Len(UpperLetters) : UpperLetters[i] = c]
    ELSE c

\* str.lower(): every character lower-cased, position by position
lower(s) == [i \in 1..Len(s) |-> lower_char(s[i])]


-----------------------------------------------------------------------------
(* The game object.  A method is an operator from the object (a record of  *)
(* its fields) to the object after the call, with the value returned and   *)
(* the exception raised.                                                   *)

\* __init__(board_size, mode) for a valid size.  board_limit and
\* win_combinations, which never change, are the operators below; pos_str,
\* which play() sets before it reads it, starts as the empty string.
init(n, m) ==
    [board_size |-> n,
     mode |-> m,
     board |-> EmptyBoard(n),
     reset_player |-> FALSE,
     winning_coords |-> << >>,
     current_player |-> "X",
     change_bot_play |-> "player",
     is_play_bot |-> m,
     winner_count |-> 0,
     pos_str |-> << >>]

\* The fields while no game object exists
NoGame ==
    [board_size |-> 0,
     mode |-> "None",
     board |-> << >>,
     reset_player |-> FALSE,
     winning_coords |-> << >>,
     current_player |-> "",
     change_bot_play |-> "",
     is_play_bot |-> "None",
     winner_count |-> 0,
     pos_str |-> << >>]

\* Values a caller can pass for board_size: [type, value], type the name of
\* the Python type and value the number the argument denotes (True is 1,
\* False is 0, 3.0 and '3' are 3, None is 0).
PyInt(k) == [type |-> "int", value |-> k]

\* isinstance(x, int): bool is a subclass of int
isinstance_int(x) == x.type \in {"int", "bool"}

\* __init__ that tests the range only: a number of any type passes
construct_without_type_check(x, m) ==
    IF ~(MinSize <= x.value /\ x.value <= MaxBoardSize)
    THEN [self |-> NoGame, raised |-> BoardSizeValueError(x)]
    ELSE [self |-> init(x.value, m), raised |-> NoException]

\* TicTacToe(board_size, mode): the type test, the range test, then the
\* fields; an exception leaves no object.
construct(x, m) ==
    IF ~isinstance_int(x)
    THEN [self |-> NoGame, raised |-> BoardSizeTypeError(x)]
    ELSE IF ~(MinSize <= x.value /\ x.value <= MaxBoardSize)
    THEN [self |-> NoGame, raised |-> BoardSizeValueError(x)]
    ELSE [self |-> init(x.value, m), raised |-> NoException]

\* self.board_limit
board_limit(self) == self.board_size * self.board_size

\* self.win_combinations, which __init__ computes once for the size
Catalog == [n \in MinSize..MaxBoardSize |-> generate_win_combinations(n)]

win_combinations(self) == Catalog[self.board_size]

\* Python's True and False, as the strings that ret holds
Py(b) == IF b THEN "True" ELSE "False"

Returns(self, value) == [self |-> self, ret |-> value, raised |-> NoException]

Raises(self, exception) == [self |-> self, ret |-> "None", raised |-> exception]

\* reset() that forgets to clear winner_count
reset_keeping_count(self) ==
    [self EXCEPT !.reset_player = FALSE,
                 !.current_player = "X",
                 !.board = EmptyBoard(self.board_size),
                 !.winning_coords = << >>,
                 !.change_bot_play = "player",
                 !.is_play_bot = self.mode]

\* reset()
reset(self) ==
    [self EXCEPT !.reset_player = FALSE,
                 !.current_player = "X",
                 !.board = EmptyBoard(self.board_size),
                 !.winning_coords = << >>,
                 !.winner_count = 0,
                 !.change_bot_play = "player",
                 !.is_play_bot = self.mode]

\* _is_draw() with any() for all(): some row without an empty cell
is_draw_any_row(self) ==
    Returns(self, Py(\E r \in 0..(self.board_size - 1) :
                         ~(\E c \in 0..(self.board_size - 1) : self.board[<< r, c >>] = Empty)))

\* _is_draw() that looks for ' ' in the list of rows, where it never is
is_draw_never(self) == Returns(self, "False")

\* _is_draw()
is_draw(self) ==
    Returns(self, Py(\A r \in 0..(self.board_size - 1) :
                         ~(\E c \in 0..(self.board_size - 1) : self.board[<< r, c >>] = Empty)))

\* The indexes of the catalog lines that _is_winner takes for complete.
WinningIndexes(self) ==
    {k \in 1..Len(win_combinations(self)) :
        \/ LineCount(self.board, win_combinations(self)[k], "X") = self.board_size
        \/ LineCount(self.board, win_combinations(self)[k], "O") = self.board_size}

Min(S) == CHOOSE x \in S : \A y \in S : x <= y

\* _is_winner() looking only for lines of the player to move
is_winner_current_player_only(self) ==
    LET hits == {k \in 1..Len(win_combinations(self)) :
                    LineCount(self.board, win_combinations(self)[k], self.current_player)
                        = self.board_size}
    IN  IF hits # {}
        THEN Returns([self EXCEPT !.winning_coords = win_combinations(self)[Min(hits)]],
                     "True")
        ELSE Returns(self, "False")

Max(S) == CHOOSE x \in S : \A y \in S : y <= x

\* _is_winner() that goes on after a match and keeps the last one
is_winner_last_match(self) ==
    IF WinningIndexes(self) # {}
    THEN Returns([self EXCEPT !.winning_coords =
                                  win_combinations(self)[Max(WinningIndexes(self))]],
                 "True")
    ELSE Returns(self, "False")

\* _is_winner()
is_winner(self) ==
    IF WinningIndexes(self) # {}
    THEN Returns([self EXCEPT !.winning_coords =
                                  win_combinations(self)[Min(WinningIndexes(self))]],
                 "True")
    ELSE Returns(self, "False")

\* _is_cell_occupied(row, col)
is_cell_occupied(self, row, col) == self.board[<< row, col >>] # Empty

\* _try_make_move(position) that hands the turn to the other player
try_make_move_switching(self, position) ==
    LET parsed == int(position)
        p == parsed.value
        row == (p - 1) \div self.board_size
        col == (p - 1) % self.board_size
    IN  IF ~parsed.ok THEN Raises(self, ValueError(position))
        ELSE IF ~(1 <= p /\ p <= board_limit(self))
        THEN Raises(self, InvalidPositionError(p, board_limit(self)))
        ELSE IF is_cell_occupied(self, row, col)
        THEN Raises(self, CellOccupiedError(p, self.board[<< row, col >>]))
        ELSE Returns([self EXCEPT !.winner_count = self.winner_count + 1,
                                  !.board = [self.board EXCEPT ![<< row, col >>] =
                                                 self.current_player],
                                  !.current_player =
                                      IF self.current_player = "X" THEN "O" ELSE "X"],
                     "None")

\* _try_make_move(position) without the test of _is_cell_occupied
try_make_move_overwriting(self, position) ==
    LET parsed == int(position)
        p == parsed.value
        row == (p - 1) \div self.board_size
        col == (p - 1) % self.board_size
    IN  IF ~parsed.ok THEN Raises(self, ValueError(position))
        ELSE IF ~(1 <= p /\ p <= board_limit(self))
        THEN Raises(self, InvalidPositionError(p, board_limit(self)))
        ELSE Returns([self EXCEPT !.winner_count = self.winner_count + 1,
                                  !.board = [self.board EXCEPT ![<< row, col >>] =
                                                 self.current_player]],
                     "None")

\* _try_make_move(position) that reports board_size as the limit
try_make_move_wrong_limit(self, position) ==
    LET parsed == int(position)
        p == parsed.value
        row == (p - 1) \div self.board_size
        col == (p - 1) % self.board_size
    IN  IF ~parsed.ok THEN Raises(self, ValueError(position))
        ELSE IF ~(1 <= p /\ p <= board_limit(self))
        THEN Raises(self, InvalidPositionError(p, self.board_size))
        ELSE IF is_cell_occupied(self, row, col)
        THEN Raises(self, CellOccupiedError(p, self.board[<< row, col >>]))
        ELSE Returns([self EXCEPT !.winner_count = self.winner_count + 1,
                                  !.board = [self.board EXCEPT ![<< row, col >>] =
                                                 self.current_player]],
                     "None")

\* _try_make_move(position) with row and column exchanged
try_make_move_transposed(self, position) ==
    LET parsed == int(position)
        p == parsed.value
        row == (p - 1) % self.board_size
        col == (p - 1) \div self.board_size
    IN  IF ~parsed.ok THEN Raises(self, ValueError(position))
        ELSE IF ~(1 <= p /\ p <= board_limit(self))
        THEN Raises(self, InvalidPositionError(p, board_limit(self)))
        ELSE IF is_cell_occupied(self, row, col)
        THEN Raises(self, CellOccupiedError(p, self.board[<< row, col >>]))
        ELSE Returns([self EXCEPT !.winner_count = self.winner_count + 1,
                                  !.board = [self.board EXCEPT ![<< row, col >>] =
                                                 self.current_player]],
                     "None")

\* _try_make_move(position), position a string
try_make_move(self, position) ==
    LET parsed == int(position)
        p == parsed.value
        row == (p - 1) \div self.board_size
        col == (p - 1) % self.board_size
    IN  IF ~parsed.ok THEN Raises(self, ValueError(position))
        ELSE IF ~(1 <= p /\ p <= board_limit(self))
        THEN Raises(self, InvalidPositionError(p, board_limit(self)))
        ELSE IF is_cell_occupied(self, row, col)
        THEN Raises(self, CellOccupiedError(p, self.board[<< row, col >>]))
        ELSE Returns([self EXCEPT !.winner_count = self.winner_count + 1,
                                  !.board = [self.board EXCEPT ![<< row, col >>] =
                                                 self.current_player]],
                     "None")

\* _validate_move(pos_str)
validate_move(self, s) ==
    IF ~isdigit(s) THEN Raises(self, InvalidInputError(s)) ELSE Returns(self, "None")


-----------------------------------------------------------------------------
(* The bot *)

\* A cell, or None
None == << >>

\* find_empty_in_line(symbol, target_count) of _get_ai_move
find_empty_in_line(self, symbol, target_count) ==
    LET combos == win_combinations(self)
        hits == {k \in 1..Len(combos) :
                    /\ LineCount(self.board, combos[k], symbol) = target_count
                    /\ LineCount(self.board, combos[k], Empty) = 1}
        combo == combos[Min(hits)]
        empty_idx == Min({j \in 1..Len(combo) : self.board[combo[j]] = Empty})
    IN  IF hits # {} THEN combo[empty_idx] ELSE None

\* _get_ai_move() that looks for a line to block before a line to win
get_ai_move_defend_first(self) ==
    LET attack == find_empty_in_line(self, "O", self.board_size - 1)
        defend == find_empty_in_line(self, "X", self.board_size - 1)
        center == self.board_size \div 2
        empty_cells == {cell \in Cells(self.board_size) : self.board[cell] = Empty}
    IN  IF defend # None THEN {defend}
        ELSE IF attack # None THEN {attack}
        ELSE IF self.board[<< center, center >>] = Empty THEN {<< center, center >>}
        ELSE IF empty_cells # {} THEN empty_cells
        ELSE {None}

\* _get_ai_move() that takes the free center before it blocks
get_ai_move_center_first(self) ==
    LET attack == find_empty_in_line(self, "O", self.board_size - 1)
        defend == find_empty_in_line(self, "X", self.board_size - 1)
        center == self.board_size \div 2
        empty_cells == {cell \in Cells(self.board_size) : self.board[cell] = Empty}
    IN  IF attack # None THEN {attack}
        ELSE IF self.board[<< center, center >>] = Empty THEN {<< center, center >>}
        ELSE IF defend # None THEN {defend}
        ELSE IF empty_cells # {} THEN empty_cells
        ELSE {None}

\* _get_ai_move() with (board_size - 1) // 2 for the center
get_ai_move_center_rounded_down(self) ==
    LET attack == find_empty_in_line(self, "O", self.board_size - 1)
        defend == find_empty_in_line(self, "X", self.board_size - 1)
        center == (self.board_size - 1) \div 2
        empty_cells == {cell \in Cells(self.board_size) : self.board[cell] = Empty}
    IN  IF attack # None THEN {attack}
        ELSE IF defend # None THEN {defend}
        ELSE IF self.board[<< center, center >>] = Empty THEN {<< center, center >>}
        ELSE IF empty_cells # {} THEN empty_cells
        ELSE {None}

\* _get_ai_move() that takes the first empty cell where the code draws one
get_ai_move_first_empty(self) ==
    LET attack == find_empty_in_line(self, "O", self.board_size - 1)
        defend == find_empty_in_line(self, "X", self.board_size - 1)
        center == self.board_size \div 2
        empty_cells == {cell \in Cells(self.board_size) : self.board[cell] = Empty}
    IN  IF attack # None THEN {attack}
        ELSE IF defend # None THEN {defend}
        ELSE IF self.board[<< center, center >>] = Empty THEN {<< center, center >>}
        ELSE IF empty_cells # {}
        THEN {CHOOSE cell \in empty_cells :
                \A other \in empty_cells :
                    cell[1] < other[1] \/ (cell[1] = other[1] /\ cell[2] <= other[2])}
        ELSE {None}

\* _get_ai_move(): the set of the values it can return; the set has several
\* members only where random.choice draws among the empty cells.
get_ai_move(self) ==
    LET attack == find_empty_in_line(self, "O", self.board_size - 1)
        defend == find_empty_in_line(self, "X", self.board_size - 1)
        center == self.board_size \div 2
        empty_cells == {cell \in Cells(self.board_size) : self.board[cell] = Empty}
    IN  IF attack # None THEN {attack}
        ELSE IF defend # None THEN {defend}
        ELSE IF self.board[<< center, center >>] = Empty THEN {<< center, center >>}
        ELSE IF empty_cells # {} THEN empty_cells
        ELSE {None}

-----------------------------------------------------------------------------
(* The driving loop *)

\* The answers that _mode_selection and _is_continue_game take for a yes:
\* ['да', 'д', 'y', 'yes']
YesAnswers == {<< CYR_D, CYR_A >>, << CYR_D >>, << "y" >>, << "y", "e", "s" >>}

\* _mode_selection(), ask_play_with_bot the console answer
mode_selection(self, ask_play_with_bot) ==
    [self EXCEPT !.is_play_bot = Py(ask_play_with_bot \in YesAnswers)]

\* The record _save_game_history(result) writes to the history file.
LogEntry(self, result, winner) ==
    [mode |-> IF self.is_play_bot = "True" THEN "Bot" ELSE "PVP",
     board_size |-> self.board_size,
     moves |-> self.winner_count,
     result |-> result,
     winner |-> winner]

\* _switch_player() whose second test, the one of change_bot_play, does
\* not look at reset_player
switch_player_flag_unguarded(self) ==
    LET toggled == IF self.is_play_bot # "None" /\ self.reset_player = FALSE
                   THEN [self EXCEPT !.current_player =
                                         IF self.current_player = "X" THEN "O" ELSE "X"]
                   ELSE self
        flagged == IF toggled.is_play_bot = "True"
                   THEN [toggled EXCEPT !.change_bot_play =
                                            IF toggled.change_bot_play = "bot"
                                            THEN "player" ELSE "bot"]
                   ELSE toggled
    IN  IF flagged.reset_player THEN [flagged EXCEPT !.reset_player = FALSE] ELSE flagged

\* _switch_player() without the flag reset_player: the player and the
\* bot's flag are toggled after a replay as after any move
switch_player_ignoring_reset(self) ==
    LET toggled == IF self.is_play_bot # "None"
                   THEN [self EXCEPT !.current_player =
                                         IF self.current_player = "X" THEN "O" ELSE "X"]
                   ELSE self
        flagged == IF toggled.is_play_bot = "True"
                   THEN [toggled EXCEPT !.change_bot_play =
                                            IF toggled.change_bot_play = "bot"
                                            THEN "player" ELSE "bot"]
                   ELSE toggled
    IN  [flagged EXCEPT !.reset_player = FALSE]

\* _switch_player()
switch_player(self) ==
    LET toggled == IF self.is_play_bot # "None" /\ self.reset_player = FALSE
                   THEN [self EXCEPT !.current_player =
                                         IF self.current_player = "X" THEN "O" ELSE "X"]
                   ELSE self
        flagged == IF toggled.is_play_bot = "True" /\ toggled.reset_player = FALSE
                   THEN [toggled EXCEPT !.change_bot_play =
                                            IF toggled.change_bot_play = "bot"
                                            THEN "player" ELSE "bot"]
                   ELSE toggled
    IN  IF flagged.reset_player THEN [flagged EXCEPT !.reset_player = FALSE] ELSE flagged

\* What one pass through the body of the while-loop leaves behind.
Outcome(self, next_pc, exception, entries) ==
    [self |-> self, pc |-> next_pc, raised |-> exception, saved |-> entries]

\* _is_continue_game(result) that writes the record after the replay
\* question, from the game as reset() has left it
is_continue_game_saving_after_reset(self, result, ask_replay) ==
    LET again == lower(ask_replay) \in YesAnswers
        after == IF again THEN [reset(self) EXCEPT !.reset_player = TRUE] ELSE self
        entry == IF result = "win"
                 THEN LogEntry(after, "win", after.current_player)
                 ELSE LogEntry(after, "draw", "")
    IN  [self |-> after, ret |-> Py(again), saved |-> << entry >>]

\* _is_continue_game(result), ask_replay the console answer: the record is
\* saved, then a yes resets the game, sets reset_player and returns True;
\* anything else returns False.
is_continue_game(self, result, ask_replay) ==
    LET entry == IF result = "win"
                 THEN LogEntry(self, "win", self.current_player)
                 ELSE LogEntry(self, "draw", "")
    IN  IF lower(ask_replay) \in YesAnswers
        THEN [self |-> [reset(self) EXCEPT !.reset_player = TRUE], ret |-> "True",
              saved |-> << entry >>]
        ELSE [self |-> self, ret |-> "False", saved |-> << entry >>]

\* What play() does with the answer of _is_continue_game: False returns from
\* play(), True goes on to _switch_player and the next iteration.
round_over(continue) ==
    IF continue.ret = "False"
    THEN Outcome(continue.self, "returned", NoException, continue.saved)
    ELSE Outcome(switch_player(continue.self), "loop", NoException, continue.saved)

\* The statements of play() after _try_make_move, with _switch_player called
\* before the round is tested for its end
after_move_switching_first(self, ask_replay) ==
    LET won == is_winner(switch_player(self))
    IN  IF won.ret = "True" THEN round_over(is_continue_game(won.self, "win", ask_replay))
        ELSE IF is_draw(won.self).ret = "True"
        THEN round_over(is_continue_game(won.self, "draw", ask_replay))
        ELSE Outcome(won.self, "loop", NoException, << >>)

\* The statements of play() after _try_make_move without the test of
\* _is_winner: a round ends only when the board is full
after_move_ignoring_win(self, ask_replay) ==
    IF is_draw(self).ret = "True"
    THEN round_over(is_continue_game(self, "draw", ask_replay))
    ELSE Outcome(switch_player(self), "loop", NoException, << >>)

\* The statements of play() after _try_make_move with the two tests in the
\* other order: _is_draw first, then _is_winner
after_move_draw_first(self, ask_replay) ==
    LET won == is_winner(self)
    IN  IF is_draw(self).ret = "True"
        THEN round_over(is_continue_game(self, "draw", ask_replay))
        ELSE IF won.ret = "True"
        THEN round_over(is_continue_game(won.self, "win", ask_replay))
        ELSE Outcome(switch_player(won.self), "loop", NoException, << >>)

\* The statements of play() after _try_make_move has placed the mark.
after_move(self, ask_replay) ==
    LET won == is_winner(self)
    IN  IF won.ret = "True" THEN round_over(is_continue_game(won.self, "win", ask_replay))
        ELSE IF is_draw(won.self).ret = "True"
        THEN round_over(is_continue_game(won.self, "draw", ask_replay))
        ELSE Outcome(switch_player(won.self), "loop", NoException, << >>)

\* The statements of play() from _is_stop_game on, with _switch_player
\* called in the except clause as well
after_input_switching_on_error(self, ask_replay) ==
    LET validated == validate_move(self, self.pos_str)
        moved == try_make_move(self, self.pos_str)
    IN  IF self.pos_str = << >> THEN Outcome(self, "returned", NoException, << >>)
        ELSE IF validated.raised.type # "None"
        THEN Outcome(switch_player(self), "loop", validated.raised, << >>)
        ELSE IF moved.raised.type \in TicTacToeError
        THEN Outcome(switch_player(self), "loop", moved.raised, << >>)
        ELSE IF moved.raised.type # "None"
        THEN Outcome(self, "crashed", moved.raised, << >>)
        ELSE after_move(moved.self, ask_replay)

\* The statements of play() from _validate_move on, without the test of
\* _is_stop_game: the empty line is validated like any other
after_input_without_stop(self, ask_replay) ==
    LET validated == validate_move(self, self.pos_str)
        moved == try_make_move(self, self.pos_str)
    IN  IF validated.raised.type # "None"
        THEN Outcome(self, "loop", validated.raised, << >>)
        ELSE IF moved.raised.type \in TicTacToeError
        THEN Outcome(self, "loop", moved.raised, << >>)
        ELSE IF moved.raised.type # "None"
        THEN Outcome(self, "crashed", moved.raised, << >>)
        ELSE after_move(moved.self, ask_replay)

\* The statements of play() from _is_stop_game on, pos_str being set.
after_input(self, ask_replay) ==
    LET validated == validate_move(self, self.pos_str)
        moved == try_make_move(self, self.pos_str)
    IN  IF self.pos_str = << >> THEN Outcome(self, "returned", NoException, << >>)
        ELSE IF validated.raised.type # "None"
        THEN Outcome(self, "loop", validated.raised, << >>)
        ELSE IF moved.raised.type \in TicTacToeError
        THEN Outcome(self, "loop", moved.raised, << >>)
        ELSE IF moved.raised.type # "None"
        THEN Outcome(self, "crashed", moved.raised, << >>)
        ELSE after_move(moved.self, ask_replay)

\* pvp_mode(), token the line read from the console
pvp_mode(self, token) == Returns([self EXCEPT !.pos_str = token], "None")

\* bot_mode() that forgets the 1 of the one-based position
bot_mode_zero_based(self, token, move_bot) ==
    IF self.change_bot_play = "player"
    THEN Returns([self EXCEPT !.pos_str = token], "None")
    ELSE IF self.change_bot_play = "bot"
    THEN IF move_bot = None
         THEN Raises(self, TypeError)
         ELSE Returns([self EXCEPT !.pos_str =
                           str(move_bot[1] * self.board_size + move_bot[2])],
                      "None")
    ELSE Returns(self, "None")

\* bot_mode() that numbers the cells down the columns
bot_mode_column_major(self, token, move_bot) ==
    IF self.change_bot_play = "player"
    THEN Returns([self EXCEPT !.pos_str = token], "None")
    ELSE IF self.change_bot_play = "bot"
    THEN IF move_bot = None
         THEN Raises(self, TypeError)
         ELSE Returns([self EXCEPT !.pos_str =
                           str(move_bot[2] * self.board_size + move_bot[1] + 1)],
                      "None")
    ELSE Returns(self, "None")

\* bot_mode(), token the line read from the console on the human's turn and
\* move_bot the value _get_ai_move returns on the bot's
bot_mode(self, token, move_bot) ==
    IF self.change_bot_play = "player"
    THEN Returns([self EXCEPT !.pos_str = token], "None")
    ELSE IF self.change_bot_play = "bot"
    THEN IF move_bot = None
         THEN Raises(self, TypeError)
         ELSE Returns([self EXCEPT !.pos_str =
                           str(move_bot[1] * self.board_size + move_bot[2] + 1)],
                      "None")
    ELSE Returns(self, "None")

\* One pass through the body of the while-loop of play().  ask_play_with_bot
\* is the answer _mode_selection reads, token the line pvp_mode or bot_mode
\* reads, move_bot the value _get_ai_move returns and ask_replay the answer
\* _is_continue_game reads; each is used only where the code reads it.
play_iteration(self, ask_play_with_bot, token, move_bot, ask_replay) ==
    LET selected == IF self.is_play_bot = "None"
                    THEN mode_selection(self, ask_play_with_bot)
                    ELSE self
        prompted == IF selected.is_play_bot = "True"
                    THEN bot_mode(selected, token, move_bot)
                    ELSE pvp_mode(selected, token)
    IN  IF prompted.raised.type # "None"
        THEN Outcome(prompted.self, "crashed", prompted.raised, << >>)
        ELSE after_input(prompted.self, ask_replay)


-----------------------------------------------------------------------------
(* The standalone engine of p4.py.  Its object has no fields mode and      *)
(* reset_player: in the record they stay "None" and FALSE.  The methods    *)
(* that p4.py has word for word in common with the package (_is_winner,    *)
(* _is_draw, _try_make_move, _validate_move, _mode_selection, pvp_mode,    *)
(* bot_mode, _get_ai_move, _save_game_history) are the operators above.    *)

\* p4.TicTacToe(n)
p4_init(n) ==
    [board_size |-> n,
     mode |-> "None",
     board |-> EmptyBoard(n),
     reset_player |-> FALSE,
     winning_coords |-> << >>,
     current_player |-> "X",
     change_bot_play |-> "player",
     is_play_bot |-> "None",
     winner_count |-> 0,
     pos_str |-> << >>]

\* reset() of p4.py that leaves is_play_bot as it is
p4_reset_keeping_mode(self) ==
    [self EXCEPT !.current_player = "X",
                 !.board = EmptyBoard(self.board_size),
                 !.winning_coords = << >>,
                 !.winner_count = 0,
                 !.change_bot_play = "player"]

\* reset() of p4.py
p4_reset(self) ==
    [self EXCEPT !.current_player = "X",
                 !.board = EmptyBoard(self.board_size),
                 !.winning_coords = << >>,
                 !.winner_count = 0,
                 !.change_bot_play = "player",
                 !.is_play_bot = "None"]

\* _switch_player() of p4.py
p4_switch_player(self) ==
    LET toggled == IF self.is_play_bot # "None"
                   THEN [self EXCEPT !.current_player =
                                         IF self.current_player = "X" THEN "O" ELSE "X"]
                   ELSE self
    IN  IF toggled.is_play_bot = "True"
        THEN [toggled EXCEPT !.change_bot_play =
                                 IF toggled.change_bot_play = "bot" THEN "player" ELSE "bot"]
        ELSE toggled

\* _is_continue_game(result) of p4.py
p4_is_continue_game(self, result, ask_replay) ==
    LET entry == IF result = "win"
                 THEN LogEntry(self, "win", self.current_player)
                 ELSE LogEntry(self, "draw", "")
    IN  IF lower(ask_replay) \in YesAnswers
        THEN [self |-> p4_reset(self), ret |-> "True", saved |-> << entry >>]
        ELSE [self |-> self, ret |-> "False", saved |-> << entry >>]

\* What play() of p4.py does with the answer of _is_continue_game
p4_round_over(continue) ==
    IF continue.ret = "False"
    THEN Outcome(continue.self, "returned", NoException, continue.saved)
    ELSE Outcome(p4_switch_player(continue.self), "loop", NoException, continue.saved)

\* The statements of play() of p4.py after _try_make_move
p4_after_move(self, ask_replay) ==
    LET won == is_winner(self)
    IN  IF won.ret = "True"
        THEN p4_round_over(p4_is_continue_game(won.self, "win", ask_replay))
        ELSE IF is_draw(won.self).ret = "True"
        THEN p4_round_over(p4_is_continue_game(won.self, "draw", ask_replay))
        ELSE Outcome(p4_switch_player(won.self), "loop", NoException, << >>)

\* The statements of play() of p4.py from _is_stop_game on
p4_after_input(self, ask_replay) ==
    LET validated == validate_move(self, self.pos_str)
        moved == try_make_move(self, self.pos_str)
    IN  IF self.pos_str = << >> THEN Outcome(self, "returned", NoException, << >>)
        ELSE IF validated.raised.type # "None"
        THEN Outcome(self, "loop", validated.raised, << >>)
        ELSE IF moved.raised.type \in TicTacToeError
        THEN Outcome(self, "loop", moved.raised, << >>)
        ELSE IF moved.raised.type # "None"
        THEN Outcome(self, "crashed", moved.raised, << >>)
        ELSE p4_after_move(moved.self, ask_replay)

\* One pass through the body of the while-loop of play() of p4.py, on the
\* inputs of play_iteration
p4_play_iteration(self, ask_play_with_bot, token, move_bot, ask_replay) ==
    LET selected == IF self.is_play_bot = "None"
                    THEN mode_selection(self, ask_play_with_bot)
                    ELSE self
        prompted == IF selected.is_play_bot = "True"
                    THEN bot_mode(selected, token, move_bot)
                    ELSE pvp_mode(selected, token)
    IN  IF prompted.raised.type # "None"
        THEN Outcome(prompted.self, "crashed", prompted.raised, << >>)
        ELSE p4_after_input(prompted.self, ask_replay)


-----------------------------------------------------------------------------
(* State, inputs and actions *)

\* The game object in the current state
Self ==
    [board_size |-> board_size,
     mode |-> mode,
     board |-> board,
     reset_player |-> reset_player,
     winning_coords |-> winning_coords,
     current_player |-> current_player,
     change_bot_play |-> change_bot_play,
     is_play_bot |-> is_play_bot,
     winner_count |-> winner_count,
     pos_str |-> pos_str]

\* The game object in the next state
Becomes(self) ==
    /\ board_size' = self.board_size
    /\ mode' = self.mode
    /\ board' = self.board
    /\ reset_player' = self.reset_player
    /\ winning_coords' = self.winning_coords
    /\ current_player' = self.current_player
    /\ change_bot_play' = self.change_bot_play
    /\ is_play_bot' = self.is_play_bot
    /\ winner_count' = self.winner_count
    /\ pos_str' = self.pos_str

\* The current state holds the game object self
Holds(self) ==
    /\ board_size = self.board_size
    /\ mode = self.mode
    /\ board = self.board
    /\ reset_player = self.reset_player
    /\ winning_coords = self.winning_coords
    /\ current_player = self.current_player
    /\ change_bot_play = self.change_bot_play
    /\ is_play_bot = self.is_play_bot
    /\ winner_count = self.winner_count
    /\ pos_str = self.pos_str

Modes == {"None", "True", "False"}

\* Console answers to the two yes/no questions: 'y', 'Y', 'Yes', 'Да', 'n'
Answers ==
    {<< "y" >>, << "Y" >>, << "Y", "e", "s" >>, << CYR_CAP_D, CYR_A >>, << "n" >>}

\* Lines typed at the move prompt: the empty line, the numbers 0..n*n+1 of
\* the largest board, and lines that are no plain number (a letter, U+00B2,
\* signed numbers, a number after a tab).
HumanTokens ==
    {<< >>} \cup {str(p) : p \in 0..(MaxSize * MaxSize + 1)}
            \cup {<< "a" >>, << SUP2 >>, << "+", "5" >>, << "-", "1" >>, << "\t", "1" >>}

\* Positions passed to _try_make_move when it is called on its own
Positions(n) == (0 - 1)..(n * n + 1)

\* The strings passed to _try_make_move when it is called on its own: the
\* positions as str writes them, and two numbers with whitespace around
\* them ('\t1' and the last cell followed by U+00A0 and '\n')
Arguments(n) ==
    {str(p) : p \in Positions(n)}
        \cup {<< "\t" >> \o str(1), str(n * n) \o << NBSP, "\n" >>}

NumberOfMarks(b, n) == Cardinality({cell \in Cells(n) : b[cell] # Empty})

\* play() is entered on a freshly constructed game.
Init ==
    /\ \E n \in Sizes, m \in Modes : Holds(init(n, m))
    /\ pc = "loop"
    /\ op = "None"
    /\ arg = << >>
    /\ ret = "None"
    /\ raised = NoException
    /\ saved = << >>

\* One iteration of the while-loop of play()
Play ==
    /\ pc = "loop"
    /\ \E ask_play_with_bot \in (IF is_play_bot = "None" THEN Answers ELSE {<< "n" >>}) :
         LET bot_turn == /\ mode_selection(Self, ask_play_with_bot).is_play_bot = "True"
                            \/ is_play_bot = "True"
                         /\ change_bot_play = "bot"
         IN  \E token \in (IF bot_turn THEN {<< >>} ELSE HumanTokens),
                move_bot \in (IF bot_turn THEN get_ai_move(Self) ELSE {None}) :
               \E ask_replay \in (IF play_iteration(Self, ask_play_with_bot, token,
                                                    move_bot, << "n" >>).saved = << >>
                                  THEN {<< "n" >>} ELSE Answers) :
                  \E out \in {play_iteration(Self, ask_play_with_bot, token, move_bot,
                                            ask_replay)} :
                      /\ Becomes(out.self)
                      /\ pc' = out.pc
                      /\ op' = "play"
                      /\ arg' = arg
                      /\ ret' = "None"
                      /\ raised' = out.raised
                      /\ saved' = out.saved

Next == Play

Spec == Init /\ [][Next]_vars

\* A step of the loop that applies a move: play() goes on from the loop,
\* nothing is raised, and the line read (or the one bot_mode wrote) is not
\* the empty line that ends play().
MoveApplied ==
    /\ pc = "loop"
    /\ op' = "play"
    /\ raised'.type = "None"
    /\ pos_str' # << >>

\* The loop under the assumption that a prompt is not answered with
\* rejected lines for ever: as long as play() is in its loop, moves go on
\* being applied.  This is weak fairness of the steps MoveApplied, which
\* are possible exactly while pc = "loop" (a round in progress has an empty
\* cell, and the bot's iterations apply a move by themselves), written
\* with that condition in the place of ENABLED.
SpecFair ==
    /\ Init /\ [][Next]_vars
    /\ ([]<>(pc # "loop") \/ []<><<MoveApplied>>_vars)

\* A game object with any board, before one method call
InitOps ==
    /\ \E n \in Sizes :
         \E b \in [Cells(n) -> CellValues], player \in Marks :
            Holds([init(n, "False") EXCEPT !.board = b,
                                           !.current_player = player,
                                           !.winner_count = NumberOfMarks(b, n)])
    /\ pc = "call"
    /\ op = "None"
    /\ arg = << >>
    /\ ret = "None"
    /\ raised = NoException
    /\ saved = << >>

Called(name, argument, out) ==
    /\ Becomes(out.self)
    /\ pc' = "done"
    /\ op' = name
    /\ arg' = argument
    /\ ret' = out.ret
    /\ raised' = out.raised
    /\ saved' = << >>

CallIsWinner == pc = "call" /\ Called("_is_winner", << >>, is_winner(Self))

CallIsDraw == pc = "call" /\ Called("_is_draw", << >>, is_draw(Self))

CallTryMakeMove ==
    /\ pc = "call"
    /\ \E position \in Arguments(board_size) :
         Called("_try_make_move", position, try_make_move(Self, position))

\* _get_ai_move(): one of the values it can return
CallGetAiMove ==
    /\ pc = "call"
    /\ \E move \in get_ai_move(Self) : Called("_get_ai_move", << >>, Returns(Self, move))

NextOps == CallIsWinner \/ CallIsDraw \/ CallTryMakeMove \/ CallGetAiMove

SpecOps == InitOps /\ [][NextOps]_vars


\* reset() called by the owner of the game object once play() has come back
\* to it, by a return or by an exception that the loop does not catch
CallReset ==
    /\ pc \in {"returned", "crashed", "reset"}
    /\ Becomes(reset(Self))
    /\ pc' = "reset"
    /\ op' = "reset"
    /\ arg' = << >>
    /\ ret' = "None"
    /\ raised' = NoException
    /\ saved' = << >>

NextReset == Play \/ CallReset

SpecReset == Init /\ [][NextReset]_vars

\* Arguments for board_size: the integers from below MinSize to above
\* MaxBoardSize, the two booleans, a float, a string and None.
SizeArguments ==
    {PyInt(k) : k \in (MinSize - 3)..(MaxBoardSize + 3)}
        \cup {[type |-> "bool", value |-> 1], [type |-> "bool", value |-> 0],
               [type |-> "float", value |-> 3], [type |-> "str", value |-> 3], PyNone}

\* No game object yet; the arguments of the constructor are chosen.
InitNew ==
    /\ Holds(NoGame)
    /\ pc = "new"
    /\ op = "None"
    /\ arg \in [board_size : SizeArguments, mode : Modes]
    /\ ret = "None"
    /\ raised = NoException
    /\ saved = << >>

\* TicTacToe(board_size, mode)
New ==
    /\ pc = "new"
    /\ \E out \in {construct(arg.board_size, arg.mode)} :
         /\ Becomes(out.self)
         /\ pc' = IF out.raised.type = "None" THEN "constructed" ELSE "failed"
         /\ op' = "__init__"
         /\ arg' = arg
         /\ ret' = "None"
         /\ raised' = out.raised
         /\ saved' = << >>

NextNew == New

SpecNew == InitNew /\ [][NextNew]_vars

-----------------------------------------------------------------------------
(* The analytics of the history file: GameHistoryManager.  saved holds     *)
(* parsed_data, the records that __init__ parses from the lines of the     *)
(* file, with the groups that the counts read: mode, winner and draw.      *)

\* The word that _save_game_history writes for a drawn game and that the
\* group draw of the pattern matches (the Russian for draw)
Nichya == "Nichya"

\* The number of records of a history
MaxRecords == 3

\* The dictionaries that the pattern of __init__ yields: mode is one of the
\* two mode names ("Bot" for the Russian word), and of the groups winner
\* ([XO]) and draw exactly one has matched, the other is None.
ParsedRecords ==
    {r \in [mode : {"Bot", "PVP"}, winner : {"X", "O", "None"}, draw : {Nichya, "None"}] :
        (r.winner = "None") # (r.draw = "None")}

\* _count_results(mode, winner, key)
count_results(parsed_data, mode_name, winner, key) ==
    Cardinality({i \in 1..Len(parsed_data) :
                    parsed_data[i].mode = mode_name /\ parsed_data[i][key] = winner})

\* show_stats: the numbers it prints
show_stats(parsed_data) ==
    LET win_x_pvp == count_results(parsed_data, "PVP", "X", "winner")
        win_x_bot == count_results(parsed_data, "Bot", "X", "winner")
        win_o_pvp == count_results(parsed_data, "PVP", "O", "winner")
        win_o_bot == count_results(parsed_data, "Bot", "O", "winner")
        draws_pvp == count_results(parsed_data, "PVP", Nichya, "draw")
        draws_bot == count_results(parsed_data, "Bot", Nichya, "draw")
        total_x_win == win_x_pvp + win_x_bot
        total_o_win == win_o_pvp + win_o_bot
        total_draws == draws_pvp + draws_bot
    IN  [win_x_pvp |-> win_x_pvp, win_x_bot |-> win_x_bot,
         win_o_pvp |-> win_o_pvp, win_o_bot |-> win_o_bot,
         draws_pvp |-> draws_pvp, draws_bot |-> draws_bot,
         total_x_win |-> total_x_win, total_o_win |-> total_o_win,
         total_draws |-> total_draws,
         total_matches |-> total_x_win + total_o_win + total_draws]

\* floor(log2(num / den)) for num, den > 0: the exponent of the double
\* nearest to num / den
RECURSIVE floor_log2(_, _)
floor_log2(num, den) ==
    IF num >= 2 * den THEN floor_log2(num, 2 * den) + 1
    ELSE IF num < den THEN floor_log2(2 * num, den) - 1
    ELSE 0

\* 2^e and (x * 2^e) % m, for e >= 0
RECURSIVE Pow2(_)
Pow2(e) == IF e = 0 THEN 1 ELSE 2 * Pow2(e - 1)

RECURSIVE Pow2Mod(_, _, _)
Pow2Mod(x, e, m) == IF e = 0 THEN x % m ELSE (2 * Pow2Mod(x, e - 1, m)) % m

\* Round x / y (y > 0) to the nearest integer; half-way, to the one that
\* makes parity + result even (IEEE 754 roundTiesToEven on a significand)
RoundTiesToEven(x, y, parity) ==
    LET j == (2 * x + y) \div (2 * y)
    IN  IF (2 * x + y) % (2 * y) = 0 /\ (parity + j) % 2 = 1 THEN j - 1 ELSE j

\* The double that 100 / a * c evaluates to, against the exact quotient
\* 100 * c / a: -1 below it, 0 equal to it, 1 above it (1 <= c <= a).
\* Both operations round to a significand of 53 bits.  With kq and kv the
\* exponents of 100 / a and of 100 * c / a, the division leaves the error
\* s / (a * 2^(52 - kq)) and the product lies phi = Np / Dp units of the
\* last place of the result above the largest double that is at most the
\* exact quotient (rho / a units below the quotient); the multiplication
\* rounds phi to an integer.  Just below a power of two the doubles lie
\* twice as close.
DoubleSide(a, c) ==
    LET kq == floor_log2(100, a)
        kv == floor_log2(100 * c, a)
        r == Pow2Mod(100, 52 - kq, a)
        s == IF 2 * r < a THEN r ELSE r - a
        rho == Pow2Mod(100 * c, 52 - kv, a)
        parity == (Pow2Mod(100 * c, 52 - kv, 2 * a) - rho) \div a
        Np == rho * Pow2(kv - kq) - s * c
        Dp == a * Pow2(kv - kq)
        power_of_two == IF kv >= 0 THEN 100 * c = a * Pow2(kv)
                                   ELSE 100 * c * Pow2(0 - kv) = a
        j == RoundTiesToEven(Np, Dp, parity)
    IN  IF power_of_two /\ s > 0
        THEN (IF RoundTiesToEven(2 * Np, Dp, 0) = 0 THEN 0 ELSE -1)
        ELSE IF j >= 1 THEN 1
        ELSE IF j <= -1 THEN -1
        ELSE IF rho = 0 THEN 0 ELSE -1

\* chance_calc_f(a, c) of winrate: the double 100 / a * c formatted with
\* '.1f', as the number of tenths of a percent (0 <= c <= a, a >= 1).  The
\* format rounds the value of the double to the nearest tenth, and to the
\* even tenth when the double lies exactly half-way.  The double differs
\* from the exact quotient by less than the quotient's distance to a
\* half-way point unless that distance is 0, where DoubleSide decides.
chance_calc_f(a, c) ==
    LET tenths == (1000 * c) \div a
        rest == (1000 * c) % a
    IN  IF 2 * rest < a THEN tenths
        ELSE IF 2 * rest > a THEN tenths + 1
        ELSE IF DoubleSide(a, c) = 1 THEN tenths + 1
        ELSE IF DoubleSide(a, c) = -1 THEN tenths
        ELSE IF tenths % 2 = 0 THEN tenths ELSE tenths + 1

\* What winrate prints: printed is "usage" for the line that asks for a
\* mode, "absent" for the line that says the mode has no statistics yet and
\* "rates" for the line of percentages; the counts are those the
\* percentages are computed from.
WinrateOutput(printed, mode_name, win_x, win_o, draws, rates) ==
    [printed |-> printed, mode_name |-> mode_name, win_x |-> win_x, win_o |-> win_o,
     draws |-> draws, total_games |-> win_x + win_o + draws, rates |-> rates]

\* The argument of winrate: None (the default), or a string
NoTarget == [given |-> FALSE, value |-> << >>]

Target(s) == [given |-> TRUE, value |-> s]

\* winrate(target)
winrate(parsed_data, target) ==
    LET mode_name == IF lower(target.value) = << "b", "o", "t" >> THEN "Bot" ELSE "PVP"
        win_x == count_results(parsed_data, mode_name, "X", "winner")
        win_o == count_results(parsed_data, mode_name, "O", "winner")
        draws == count_results(parsed_data, mode_name, Nichya, "winner")
        total_games == win_x + win_o + draws
    IN  IF ~target.given
           \/ lower(target.value) \notin {<< "b", "o", "t" >>, << "p", "v", "p" >>}
        THEN WinrateOutput("usage", "", 0, 0, 0, << >>)
        ELSE IF total_games = 0
        THEN WinrateOutput("absent", mode_name, win_x, win_o, draws, << >>)
        ELSE WinrateOutput("rates", mode_name, win_x, win_o, draws,
                           << chance_calc_f(total_games, win_x),
                              chance_calc_f(total_games, win_o),
                              chance_calc_f(total_games, draws) >>)

\* Arguments given to winrate: None, 'bot', 'pvp', 'BOT', 'Bot', 'Pvp',
\* 'x' and the empty string
Targets ==
    {NoTarget}
        \cup {Target(s) : s \in {<< "b", "o", "t" >>, << "p", "v", "p" >>,
                                 << "B", "O", "T" >>, << "B", "o", "t" >>,
                                 << "P", "v", "p" >>, << "x" >>, << >>}}

\* The number of records of a long history
MaxGames == 16

\* Histories of MaxGames games of one mode, the first k won by X and the
\* others by O
LongHistories ==
    {[i \in 1..MaxGames |->
         [mode |-> m, winner |-> IF i <= k THEN "X" ELSE "O", draw |-> "None"]] :
        m \in {"Bot", "PVP"}, k \in 0..MaxGames}

\* Histories of up to MaxRecords records, and the long ones
Histories == UNION {[1..k -> ParsedRecords] : k \in 0..MaxRecords} \cup LongHistories

\* A GameHistoryManager constructed on a history file
InitStats ==
    /\ Holds(NoGame)
    /\ pc = "stats"
    /\ op = "None"
    /\ arg = << >>
    /\ ret = "None"
    /\ raised = NoException
    /\ saved \in Histories

\* winrate(target)
CallWinrate ==
    /\ pc = "stats"
    /\ \E target \in Targets :
         /\ ret' = winrate(saved, target)
         /\ arg' = << target >>
    /\ op' = "winrate"
    /\ pc' = "done"
    /\ UNCHANGED << board_size, mode, board, reset_player, winning_coords,
                    current_player, change_bot_play, is_play_bot, winner_count,
                    pos_str, raised, saved >>

\* show_stats
CallShowStats ==
    /\ pc = "stats"
    /\ ret' = show_stats(saved)
    /\ arg' = << >>
    /\ op' = "show_stats"
    /\ pc' = "done"
    /\ UNCHANGED << board_size, mode, board, reset_player, winning_coords,
                    current_player, change_bot_play, is_play_bot, winner_count,
                    pos_str, raised, saved >>

NextStats == CallWinrate \/ CallShowStats

SpecStats == InitStats /\ [][NextStats]_vars

-----------------------------------------------------------------------------
(* What the claims speak of, stated without the catalog and the methods *)

\* Some row, column or diagonal of the n x n board b holds n marks m.
LineOf(b, n, m) ==
    \/ \E r \in 0..(n - 1) : \A c \in 0..(n - 1) : b[<< r, c >>] = m
    \/ \E c \in 0..(n - 1) : \A r \in 0..(n - 1) : b[<< r, c >>] = m
    \/ \A i \in 0..(n - 1) : b[<< i, i >>] = m
    \/ \A i \in 0..(n - 1) : b[<< i, n - 1 - i >>] = m

HasCompleteLine(b, n) == LineOf(b, n, "X") \/ LineOf(b, n, "O")

Full(b, n) == \A cell \in Cells(n) : b[cell] # Empty

-----------------------------------------------------------------------------
(* Win and draw detection on any board *)

\* C1: on every board of every size, _is_winner returns True if and only if
\* some row, column or diagonal holds n equal marks, all X or all O.
C1_WinnerIffCompleteLine ==
    (pc = "done" /\ op = "_is_winner")
        => (ret = "True" <=> HasCompleteLine(board, board_size))

\* _is_winner has answered True on a board whose only complete line is the
\* anti-diagonal, held by the player who is not to move.
C1_Witness ==
    /\ pc = "done" /\ op = "_is_winner" /\ ret = "True"
    /\ board_size = 3
    /\ current_player = "X"
    /\ board = [cell \in Cells(3) |-> IF cell[1] + cell[2] = 2 THEN "O" ELSE Empty]

\* C2 as stated: on every board, _is_draw returns True if and only if the
\* board has no empty cell and has no complete line.
C2_DrawIffFullAndNoWinner ==
    (pc = "done" /\ op = "_is_draw")
        => (ret = "True" <=> (Full(board, board_size) /\ ~HasCompleteLine(board, board_size)))

\* C2 amended: on every board, _is_draw returns True if and only if the board
\* has no empty cell, whether or not a line is complete.
C2_DrawIffFull ==
    (pc = "done" /\ op = "_is_draw") => (ret = "True" <=> Full(board, board_size))

\* _is_draw has answered True on a full 3 x 3 board that has a complete line.
C2_Witness ==
    /\ pc = "done" /\ op = "_is_draw" /\ ret = "True"
    /\ board_size = 3
    /\ HasCompleteLine(board, board_size)


-----------------------------------------------------------------------------
(* _try_make_move on any board *)

\* The position that the last call of _try_make_move was given
Position(argument) == int(argument).value

\* The cell that position p denotes on an n x n board
CellOf(p, n) == << (p - 1) \div n, (p - 1) % n >>

\* C3: a call of _try_make_move with a position in 1..n*n whose cell is empty
\* raises nothing, puts the mark of current_player on the cell
\* ((p-1)//n, (p-1)%n) and on no other, adds one to winner_count, and leaves
\* current_player and winning_coords as they were.
C3_MoveSetsOneCell ==
    [][(op' = "_try_make_move"
            /\ Position(arg') \in 1..(board_size * board_size)
            /\ board[CellOf(Position(arg'), board_size)] = Empty)
        => /\ raised'.type = "None"
           /\ board' = [board EXCEPT ![CellOf(Position(arg'), board_size)] = current_player]
           /\ winner_count' = winner_count + 1
           /\ current_player' = current_player
           /\ winning_coords' = winning_coords
           /\ board_size' = board_size]_vars

\* O has been put on the cell (1, 2) of a 3 x 3 board, by position 6.
C3_Witness ==
    /\ pc = "done" /\ op = "_try_make_move" /\ raised.type = "None"
    /\ board_size = 3 /\ arg = << "6" >>
    /\ current_player = "O" /\ board[<< 1, 2 >>] = "O"

\* C4: a call of _try_make_move with a position whose cell holds a mark
\* raises CellOccupiedError with the position and that mark, and leaves the
\* board, winner_count and current_player as they were.
C4_OccupiedCellRejected ==
    [][(op' = "_try_make_move"
            /\ Position(arg') \in 1..(board_size * board_size)
            /\ board[CellOf(Position(arg'), board_size)] # Empty)
        => /\ raised' = CellOccupiedError(Position(arg'),
                                          board[CellOf(Position(arg'), board_size)])
           /\ board' = board
           /\ winner_count' = winner_count
           /\ current_player' = current_player]_vars

\* O to move has been refused a cell that X holds.
C4_Witness ==
    /\ pc = "done" /\ op = "_try_make_move"
    /\ raised.type = "CellOccupiedError" /\ raised.player = "X"
    /\ current_player = "O"
    /\ board[CellOf(raised.position, board_size)] = "X"

\* C5: a call of _try_make_move with an integer position outside 1..n*n, 0
\* and n*n+1 among them, raises InvalidPositionError with the position and
\* the limit n*n, and leaves the board, winner_count and current_player as
\* they were.
C5_OutOfRangeRejected ==
    [][(op' = "_try_make_move" /\ Position(arg') \notin 1..(board_size * board_size))
        => /\ raised' = InvalidPositionError(Position(arg'), board_size * board_size)
           /\ board' = board
           /\ winner_count' = winner_count
           /\ current_player' = current_player]_vars

\* Position n*n+1 has been refused on a board of size 3 that has empty cells.
C5_Witness ==
    /\ pc = "done" /\ op = "_try_make_move"
    /\ raised.type = "InvalidPositionError"
    /\ board_size = 3 /\ raised.position = 10 /\ raised.limit = 9
    /\ ~Full(board, board_size)


-----------------------------------------------------------------------------
(* The driving loop: tokens, errors, rounds *)

\* An unsigned decimal numeral: the reading of "parseable as a positive
\* integer" under which 0 and n*n+1 reach the range test, as C5 has it.
PlainNumber(s) == Len(s) > 0 /\ \A i \in 1..Len(s) : s[i] \in DecimalChars

MoveErrors == {"InvalidInputError", "InvalidPositionError", "CellOccupiedError"}

\* C6 as stated: an iteration whose move token is not empty and is no
\* number raises InvalidInputError, which the loop catches, and leaves the
\* board, current_player and winner_count as they were; an iteration whose
\* token is a number does not raise InvalidInputError.
C6_TokenValidation ==
    [][(op' = "play" /\ pos_str' # << >>)
        => /\ ~PlainNumber(pos_str')
                => /\ raised' = InvalidInputError(pos_str')
                   /\ pc' = "loop"
                   /\ board' = board
                   /\ current_player' = current_player
                   /\ winner_count' = winner_count
           /\ PlainNumber(pos_str') => raised'.type # "InvalidInputError"]_vars

\* C7 as stated: an iteration whose move token is not empty either applies
\* a legal move or raises InvalidInputError, InvalidPositionError or
\* CellOccupiedError, which the loop catches, going on with the same board,
\* current_player, winner_count and change_bot_play; nothing else escapes.
C7_NoTokenIsFatal ==
    [][(op' = "play" /\ pos_str' # << >>)
        => \/ /\ raised'.type = "None"
              /\ pc' \in {"loop", "returned"}
              /\ \/ NumberOfMarks(board', board_size) = NumberOfMarks(board, board_size) + 1
                 \/ saved' # << >>
           \/ /\ raised'.type \in MoveErrors
              /\ pc' = "loop"
              /\ board' = board
              /\ current_player' = current_player
              /\ winner_count' = winner_count
              /\ change_bot_play' = change_bot_play]_vars

\* The fields that __init__ sets are those of a newly constructed game of
\* the same size and mode (pos_str is no field of a new game).
FreshGame(self) == [self EXCEPT !.pos_str = << >>] = init(self.board_size, self.mode)

\* C8: reset(), called after any run of the loop (ended by a win, a draw, an
\* empty token or an escaped exception, in any mode), leaves the fields of a
\* newly constructed game of the same size and mode: empty board, X to
\* move, winner_count 0, no winning_coords, change_bot_play 'player'; and a
\* second reset() changes nothing.
C8_ResetRestoresFreshGame ==
    op = "reset" => (FreshGame(Self) /\ reset(Self) = Self)

\* reset() has been called on a game against the bot that ended on a move.
C8_Witness ==
    /\ op = "reset" /\ pc = "reset"
    /\ mode = "True" /\ board_size = 3
    /\ PlainNumber(pos_str)
    /\ board = EmptyBoard(3) /\ winner_count = 0

InProgress(b, n) == ~HasCompleteLine(b, n) /\ ~Full(b, n)

\* The state in which a round starts
RoundStart ==
    /\ board = EmptyBoard(board_size)
    /\ winner_count = 0
    /\ current_player = "X"
    /\ winning_coords = << >>

\* C9: whenever the loop asks for a move the board has no complete line and
\* has an empty cell, so that no mark is ever put on a won or full board;
\* the iteration that ends a round either returns from play(), leaving the
\* won or full board, or goes on from the start of a round, by reset().
C9_WonAndDrawnAreTerminal ==
    /\ [](pc = "loop" => InProgress(board, board_size))
    /\ [][board' # board => (pc = "loop" /\ InProgress(board, board_size))]_vars
    /\ [](saved # << >>
            => \/ pc = "returned" /\ ~InProgress(board, board_size)
               \/ pc = "loop" /\ RoundStart)

\* play() has returned from a drawn round on a 3 x 3 board.
C9_Witness ==
    /\ pc = "returned" /\ saved # << >>
    /\ board_size = 3
    /\ Full(board, board_size) /\ ~HasCompleteLine(board, board_size)

\* C10: the record of a won round names the player who was to move when the
\* winning mark was placed, and when play() returns that player is still
\* the one to move and holds every cell of winning_coords; current_player
\* changes only in an iteration that places a mark and leaves the round in
\* progress, or by the reset() of a replay.
C10_WinnerIsLastMover ==
    [][op' = "play"
        => /\ (saved' # << >> /\ saved'[1].result = "win")
                => /\ saved'[1].winner = current_player
                   /\ pc' = "returned"
                        => /\ current_player' = current_player
                           /\ winning_coords' # << >>
                           /\ \A i \in 1..Len(winning_coords') :
                                  board'[winning_coords'[i]] = current_player
                           /\ board[CellOf(Position(pos_str'), board_size)] = Empty
                           /\ board'[CellOf(Position(pos_str'), board_size)] = current_player
           /\ current_player' # current_player
                => \/ /\ saved' = << >> /\ raised'.type = "None" /\ pc' = "loop"
                      /\ NumberOfMarks(board', board_size)
                            = NumberOfMarks(board, board_size) + 1
                      /\ InProgress(board', board_size)
                   \/ saved' # << >> /\ pc' = "loop" /\ RoundStart']_vars

\* play() has returned from a round that O won.
C10_Witness ==
    /\ pc = "returned" /\ saved # << >>
    /\ saved[1].result = "win" /\ saved[1].winner = "O"
    /\ current_player = "O"
    /\ LineOf(board, board_size, "O")

-----------------------------------------------------------------------------
(* The win-line catalog of a constructed game *)

\* The cells of a line, without their order
CellsOfLine(line) == {line[j] : j \in 1..Len(line)}

\* C11: for every size n in 2..9 the catalog of a constructed game has
\* exactly 2n+2 lines, every line has exactly n coordinates, every
\* coordinate (row, col) has 0 <= row, col < n, and no two lines are equal,
\* neither as sequences nor as sets of cells.
C11_CatalogShape ==
    pc = "constructed"
        => LET n == board_size
               catalog == win_combinations(Self)
           IN  /\ n \in 2..9
               /\ Len(catalog) = 2 * n + 2
               /\ \A k \in 1..Len(catalog) :
                     /\ Len(catalog[k]) = n
                     /\ \A j \in 1..n :
                           /\ catalog[k][j][1] \in 0..(n - 1)
                           /\ catalog[k][j][2] \in 0..(n - 1)
               /\ \A k1, k2 \in 1..Len(catalog) :
                     k1 # k2 => /\ catalog[k1] # catalog[k2]
                                /\ CellsOfLine(catalog[k1]) # CellsOfLine(catalog[k2])

\* A game of size 9 has been constructed; its catalog has 20 lines.
C11_Witness ==
    /\ pc = "constructed" /\ op = "__init__"
    /\ board_size = 9
    /\ Len(win_combinations(Self)) = 20

-----------------------------------------------------------------------------
(* The order of the catalog *)

RowLine(n, i) == [j \in 1..n |-> << i, j - 1 >>]

ColumnLine(n, i) == [j \in 1..n |-> << j - 1, i >>]

MainDiagonal(n) == [j \in 1..n |-> << j - 1, j - 1 >>]

AntiDiagonal(n) == [j \in 1..n |-> << j - 1, n - j >>]

\* Rows 0..n-1, then columns 0..n-1, then the two diagonals
RowsThenColumns(n) ==
    [k \in 1..(2 * n + 2) |->
        IF k <= n THEN RowLine(n, k - 1)
        ELSE IF k <= 2 * n THEN ColumnLine(n, k - n - 1)
        ELSE IF k = 2 * n + 1 THEN MainDiagonal(n)
        ELSE AntiDiagonal(n)]

\* Row 0, column 0, row 1, column 1, ..., then the two diagonals
RECURSIVE RowColumnPairsFrom(_, _)
RowColumnPairsFrom(n, i) ==
    IF i >= n THEN << MainDiagonal(n), AntiDiagonal(n) >>
    ELSE << RowLine(n, i), ColumnLine(n, i) >> \o RowColumnPairsFrom(n, i + 1)

RowColumnPairs(n) == RowColumnPairsFrom(n, 0)

\* All cells of the line hold one and the same mark.
Monochrome(b, line) == \E m \in Marks : \A j \in 1..Len(line) : b[line[j]] = m

\* The line holds n-1 marks m and one empty cell.
OneShort(b, line, m) ==
    /\ Cardinality({j \in 1..Len(line) : b[line[j]] = m}) = Len(line) - 1
    /\ Cardinality({j \in 1..Len(line) : b[line[j]] = Empty}) = 1

\* The first line of the sequence lines that satisfies Test
FirstLine(lines, Test(_)) ==
    lines[CHOOSE k \in 1..Len(lines) :
              Test(lines[k]) /\ \A k2 \in 1..(k - 1) : ~Test(lines[k2])]

\* The empty cell of a line that has exactly one
EmptyCellOf(b, line) == line[CHOOSE j \in 1..Len(line) : b[line[j]] = Empty]

\* The catalog is the sequence order(n), and _is_winner and _get_ai_move
\* take the first line of that sequence that matches.
IteratesInOrder(order(_)) ==
    LET n == board_size
        lines == order(n)
        won(line) == Monochrome(board, line)
        attack(line) == OneShort(board, line, "O")
        defend(line) == OneShort(board, line, "X")
    IN  /\ win_combinations(Self) = lines
        /\ (pc = "done" /\ op = "_is_winner" /\ ret = "True")
                => winning_coords = FirstLine(lines, won)
        /\ (pc = "done" /\ op = "_get_ai_move" /\ \E k \in 1..Len(lines) : attack(lines[k]))
                => ret = EmptyCellOf(board, FirstLine(lines, attack))
        /\ (pc = "done" /\ op = "_get_ai_move"
                /\ ~(\E k \in 1..Len(lines) : attack(lines[k]))
                /\ \E k \in 1..Len(lines) : defend(lines[k]))
                => ret = EmptyCellOf(board, FirstLine(lines, defend))

\* C12 as stated: the catalog lists all rows, then all columns, then the
\* main diagonal, then the anti-diagonal, and win detection and the bot take
\* the first matching line in this order.
C12_RowsThenColumnsOrder == IteratesInOrder(RowsThenColumns)

\* C12 amended: the catalog lists row 0, column 0, row 1, column 1, ...,
\* row n-1, column n-1, then the main diagonal, then the anti-diagonal, and
\* win detection and the bot take the first matching line in this order.
C12_RowColumnPairsOrder == IteratesInOrder(RowColumnPairs)

\* _is_winner has found X on row 1 and on column 0 of a 3 x 3 board and has
\* recorded column 0, which comes first in the catalog.
C12_Witness ==
    /\ pc = "done" /\ op = "_is_winner" /\ ret = "True"
    /\ board_size = 3
    /\ \A j \in 0..2 : board[<< 1, j >>] = "X" /\ board[<< j, 0 >>] = "X"
    /\ winning_coords = ColumnLine(3, 0)

\* C13: when _is_winner returns True, winning_coords is the first line of
\* the catalog whose n cells all hold one mark, also where several lines
\* are complete; when it returns False, winning_coords is left as it was.
\* The board is never changed.
C13_FirstCompleteLineRecorded ==
    [][op' = "_is_winner"
        => LET catalog == win_combinations(Self)
               complete(k) == Monochrome(board, catalog[k])
           IN  /\ board' = board
               /\ ret' = "True"
                    => \E k \in 1..Len(catalog) :
                          /\ complete(k)
                          /\ \A k2 \in 1..(k - 1) : ~complete(k2)
                          /\ winning_coords' = catalog[k]
               /\ ret' # "True"
                    => /\ winning_coords' = winning_coords
                       /\ \A k \in 1..Len(catalog) : ~complete(k)]_vars

\* _is_winner has recorded row 0 on a 3 x 3 board where X holds row 0 and
\* the main diagonal, two lines that share the cell (0, 0).
C13_Witness ==
    /\ pc = "done" /\ op = "_is_winner" /\ ret = "True"
    /\ board_size = 3
    /\ \A j \in 0..2 : board[<< 0, j >>] = "X" /\ board[<< j, j >>] = "X"
    /\ winning_coords = RowLine(3, 0)

-----------------------------------------------------------------------------
(* The scenario 5, 1, 6, 2, 7 on a 3 x 3 board *)

\* The board after X has played 5 and 6 and O has played 1 and 2
ScenarioBefore7 ==
    [cell \in Cells(3) |->
        IF cell \in {<< 1, 1 >>, << 1, 2 >>} THEN "X"
        ELSE IF cell \in {<< 0, 0 >>, << 0, 1 >>} THEN "O"
        ELSE Empty]

\* X plays 7 on that board, in a round that started on the empty board.
ScenarioMove7 ==
    /\ op' = "play"
    /\ board_size = 3
    /\ board = ScenarioBefore7
    /\ current_player = "X"
    /\ winner_count = 4
    /\ pos_str' = << "7" >>

\* C14 as stated: after the moves 5, 1, 6, 2, 7 of X, O, X, O, X on a new
\* 3 x 3 game X stands on (2, 0), _is_winner is true and winning_coords is
\* the first column.
C14_ScenarioWinsFirstColumn ==
    [][ScenarioMove7
        => /\ board'[<< 2, 0 >>] = "X"
           /\ is_winner(Self').ret = "True"
           /\ is_winner(Self').self.winning_coords = ColumnLine(3, 0)]_vars

\* C14 amended: after the moves 5, 1, 6, 2, 7 of X, O, X, O, X on a new
\* 3 x 3 game X stands on (1, 1), (1, 2) and (2, 0) and O on (0, 0) and
\* (0, 1); no line is complete, so _is_winner is false and winning_coords
\* stays empty, nothing is logged, and the round goes on with O to move and
\* winner_count 5.
C14_ScenarioGoesOn ==
    [][ScenarioMove7
        => /\ board' = [ScenarioBefore7 EXCEPT ![<< 2, 0 >>] = "X"]
           /\ ~HasCompleteLine(board', 3)
           /\ is_winner(Self').ret = "False"
           /\ winning_coords' = << >>
           /\ raised'.type = "None"
           /\ saved' = << >>
           /\ pc' = "loop"
           /\ current_player' = "O"
           /\ winner_count' = 5]_vars

\* The loop has applied 7 for X after 5, 1, 6, 2 in a game of two players.
C14_Witness ==
    /\ pc = "loop" /\ op = "play"
    /\ board_size = 3 /\ is_play_bot = "False"
    /\ board = [ScenarioBefore7 EXCEPT ![<< 2, 0 >>] = "X"]
    /\ pos_str = << "7" >>
    /\ winner_count = 5

-----------------------------------------------------------------------------
(* The bot on any board *)

\* Some line of the catalog holds n-1 marks m and one empty cell.
SomeLineOneShort(m) ==
    \E k \in 1..Len(win_combinations(Self)) : OneShort(board, win_combinations(Self)[k], m)

\* The empty cell of the first line of the catalog that holds n-1 marks m
\* and one empty cell
CellToComplete(m) ==
    LET catalog == win_combinations(Self)
        first == CHOOSE k \in 1..Len(catalog) :
                    /\ OneShort(board, catalog[k], m)
                    /\ \A k2 \in 1..(k - 1) : ~OneShort(board, catalog[k2], m)
    IN  EmptyCellOf(board, catalog[first])

Center(n) == << n \div 2, n \div 2 >>

BotAnswered == pc = "done" /\ op = "_get_ai_move"

\* C15: on every board on which some line of the catalog holds n-1 marks O
\* and one empty cell, _get_ai_move returns the empty cell of the first such
\* line of the catalog, whatever X threatens and whether or not the center
\* is free; with O on (0,0) and (0,1) of a 3 x 3 board and (0,2) empty it
\* returns (0,2).
C15_WinNowFirst ==
    BotAnswered
        => /\ SomeLineOneShort("O") => ret = CellToComplete("O")
           /\ (board_size = 3 /\ board[<< 0, 0 >>] = "O" /\ board[<< 0, 1 >>] = "O"
                    /\ board[<< 0, 2 >>] = Empty)
                => ret = << 0, 2 >>

\* The bot has completed row 0 on a 3 x 3 board where X is one short on
\* column 0 and the center is free.
C15_Witness ==
    /\ BotAnswered /\ board_size = 3
    /\ board[<< 0, 0 >>] = "O" /\ board[<< 0, 1 >>] = "O" /\ board[<< 0, 2 >>] = Empty
    /\ board[<< 1, 0 >>] = "X" /\ board[<< 2, 0 >>] = "X" /\ board[<< 1, 1 >>] = Empty
    /\ SomeLineOneShort("X")
    /\ ret = << 0, 2 >>

\* The X marks of the board are exactly the cells of the set
MarksOfXAre(cells) == \A cell \in Cells(board_size) : board[cell] = "X" <=> cell \in cells

\* C16: on every board on which no line holds n-1 marks O and one empty
\* cell but some line holds n-1 marks X and one empty cell, _get_ai_move
\* returns the empty cell of the first such X line of the catalog, whether
\* or not the center is free; on a 3 x 3 board whose X marks are (1,0) and
\* (1,1), with (1,2) empty and no line for O to complete, it returns (1,2).
C16_BlockSecond ==
    (BotAnswered /\ ~SomeLineOneShort("O"))
        => /\ SomeLineOneShort("X") => ret = CellToComplete("X")
           /\ (board_size = 3 /\ MarksOfXAre({<< 1, 0 >>, << 1, 1 >>})
                    /\ board[<< 1, 2 >>] = Empty)
                => ret = << 1, 2 >>

\* The bot has blocked row 0 of a 3 x 3 board at (0,2) while the center
\* was free.
C16_Witness ==
    /\ BotAnswered /\ board_size = 3
    /\ ~SomeLineOneShort("O")
    /\ board[<< 0, 0 >>] = "X" /\ board[<< 0, 1 >>] = "X" /\ board[<< 0, 2 >>] = Empty
    /\ board[Center(3)] = Empty
    /\ ret = << 0, 2 >>

\* C17: on every board of every size, odd or even, with no line for O to
\* complete and no line of X to block, if the cell (n//2, n//2) is empty
\* _get_ai_move returns exactly that cell; on the empty 3 x 3 board it
\* returns (1,1).
C17_CenterThird ==
    (BotAnswered /\ ~SomeLineOneShort("O") /\ ~SomeLineOneShort("X"))
        => /\ board[Center(board_size)] = Empty => ret = Center(board_size)
           /\ (board_size = 3 /\ board = EmptyBoard(3)) => ret = << 1, 1 >>

\* The bot has taken (1,1) on the empty board of the even size 2.
C17_Witness ==
    /\ BotAnswered /\ board_size = 2
    /\ board = EmptyBoard(2)
    /\ ret = << 1, 1 >>

\* _get_ai_move can return the value v in the current state.
CanReturn(v) == ENABLED (CallGetAiMove /\ ret' = v)

\* C18: on a board with no line for O to complete, no line of X to block
\* and the center occupied, the values _get_ai_move can return are exactly
\* the empty cells of the board, each of them and no occupied cell; and on
\* any board it returns None if and only if the board has no empty cell.
C18_RandomFallback ==
    /\ (pc = "call" /\ ~SomeLineOneShort("O") /\ ~SomeLineOneShort("X")
            /\ board[Center(board_size)] # Empty)
            => /\ \A cell \in Cells(board_size) : CanReturn(cell) <=> board[cell] = Empty
               /\ CanReturn(None) <=> Full(board, board_size)
    /\ BotAnswered => (ret = None <=> Full(board, board_size))

\* The bot has drawn the corner (2,2) on a 3 x 3 board where it could as
\* well have drawn (0,1) and had nothing to complete or to block.
C18_Witness ==
    /\ BotAnswered /\ board_size = 3
    /\ ~SomeLineOneShort("O") /\ ~SomeLineOneShort("X")
    /\ board[Center(3)] # Empty
    /\ board[<< 0, 1 >>] = Empty
    /\ ret = << 2, 2 >>

-----------------------------------------------------------------------------
(* Construction *)

\* C19: TicTacToe(board_size) raises BoardSizeTypeError if board_size is no
\* int (the type is tested first: a float or a string that denotes 3 is
\* refused for its type) and BoardSizeValueError if it is an int outside
\* 2..9 (True and False, which are ints, among them); both are subclasses of
\* InvalidConfigurationError and of TicTacToeError, and no game exists
\* afterwards.  For every int n in 2..9 it raises nothing and leaves an
\* n x n board of empty cells, X to move and winner_count 0.
C19_ConstructionChecksSize ==
    op = "__init__"
        => LET x == arg.board_size
           IN  /\ x.type \notin {"int", "bool"}
                    => raised = BoardSizeTypeError(x) /\ pc = "failed" /\ Self = NoGame
               /\ (x.type \in {"int", "bool"} /\ x.value \notin 2..9)
                    => raised = BoardSizeValueError(x) /\ pc = "failed" /\ Self = NoGame
               /\ raised.type # "None"
                    => /\ raised.type \in InvalidConfigurationError
                       /\ raised.type \in TicTacToeError
               /\ (x.type = "int" /\ x.value \in 2..9)
                    => /\ raised = NoException /\ pc = "constructed"
                       /\ board_size = x.value
                       /\ DOMAIN board = (0..(x.value - 1)) \X (0..(x.value - 1))
                       /\ \A cell \in DOMAIN board : board[cell] = Empty
                       /\ current_player = "X"
                       /\ winner_count = 0
                       /\ winning_coords = << >>
                       /\ mode = arg.mode

\* The float 3.0 has been refused for its type, although 3 is a valid size.
C19_Witness ==
    /\ op = "__init__" /\ pc = "failed"
    /\ arg.board_size = [type |-> "float", value |-> 3]
    /\ raised.type = "BoardSizeTypeError"
    /\ Self = NoGame

-----------------------------------------------------------------------------
(* The record of a finished round *)

\* C20: an iteration of the loop hands a record to _save_game_history if
\* and only if its move is applied and completes a line or fills the board,
\* and then exactly one.  The record has the size of the board, the number
\* of marks on the final board (winner_count), the mode Bot if and only if
\* the round is played against the bot, and as its outcome the mark that
\* holds a complete line of the final board, or a draw if the final board
\* is full without a complete line.
C20_OneFaithfulRecordPerRound ==
    [][op' = "play"
        => \A n \in {board_size}, p \in {Position(pos_str')} :
           \A applied \in {/\ PlainNumber(pos_str')
                            /\ p \in 1..(n * n)
                            /\ board[CellOf(p, n)] = Empty} :
           \A final \in {IF applied THEN [board EXCEPT ![CellOf(p, n)] = current_player]
                          ELSE board} :
           \A won \in {applied /\ HasCompleteLine(final, n)} :
           \A completed \in {applied /\ (won \/ Full(final, n))} :
               /\ ~completed => saved' = << >>
               /\ completed
                    => /\ Len(saved') = 1
                       /\ saved'[1].board_size = n
                       /\ saved'[1].moves = NumberOfMarks(final, n)
                       /\ saved'[1].moves = winner_count + 1
                       /\ is_play_bot \in {"True", "False"}
                       /\ saved'[1].mode = "Bot" <=> is_play_bot = "True"
                       /\ saved'[1].mode = "PVP" <=> is_play_bot = "False"
                       /\ change_bot_play = "bot" => saved'[1].mode = "Bot"
                       /\ IF won
                          THEN /\ saved'[1].result = "win"
                               /\ saved'[1].winner \in Marks
                               /\ LineOf(final, n, saved'[1].winner)
                               /\ \A m \in Marks \ {saved'[1].winner} : ~LineOf(final, n, m)
                          ELSE /\ saved'[1].result = "draw"
                               /\ saved'[1].winner = ""
                               /\ Full(final, n)
                       /\ pc' = "returned"
                            => /\ board' = final
                               /\ saved'[1].result = "win"
                                    => \A j \in 1..Len(winning_coords') :
                                          board'[winning_coords'[j]] = saved'[1].winner]_vars

\* A round against the bot on a 3 x 3 board has ended in a draw after nine
\* moves, has been recorded, and a new round has begun.
C20_Witness ==
    /\ op = "play" /\ pc = "loop"
    /\ Len(saved) = 1
    /\ saved[1] = [mode |-> "Bot", board_size |-> 3, moves |-> 9, result |-> "draw",
                   winner |-> ""]
    /\ RoundStart

-----------------------------------------------------------------------------
(* Invariants of the driving loop *)

\* C21: in every state that play() reaches from a new game, through any
\* moves, rejected inputs and replays, in any mode, no board has both a
\* complete line of X and a complete line of O.
C21_AtMostOneMarkHasALine ==
    ~(LineOf(board, board_size, "X") /\ LineOf(board, board_size, "O"))

\* play() has returned from a 3 x 3 round that O won while X was one short
\* of a line: the round ended before X could complete it.
C21_Witness ==
    /\ pc = "returned" /\ op = "play" /\ board_size = 3
    /\ LineOf(board, 3, "O")
    /\ \E k \in 1..Len(win_combinations(Self)) :
          OneShort(board, win_combinations(Self)[k], "X")

\* C22: the board always has exactly the n x n cells, and a cell that holds
\* a mark keeps it through every step: applied and rejected moves of either
\* player, the bot's choice, win and draw tests, turn switches, the return
\* and the escape of an exception.  A marked cell becomes empty only by
\* reset(), called by the owner or by the replay of a finished round, and
\* then every cell does.
C22_MarksStayUntilReset ==
    /\ [](DOMAIN board = (0..(board_size - 1)) \X (0..(board_size - 1)))
    /\ [](\A cell \in DOMAIN board : board[cell] \in CellValues)
    /\ [][\/ \A cell \in DOMAIN board : board[cell] # Empty => board'[cell] = board[cell]
          \/ /\ op' = "reset" \/ (op' = "play" /\ saved' # << >> /\ pc' = "loop")
             /\ board' = EmptyBoard(board_size)]_vars
    /\ [][board_size' = board_size]_vars

\* On a 3 x 3 board with marks of both players a move to an occupied cell
\* has been rejected and the marks are still there.
C22_Witness ==
    /\ pc = "loop" /\ op = "play" /\ board_size = 3
    /\ raised.type = "CellOccupiedError"
    /\ NumberOfMarks(board, 3) = 4
    /\ board[CellOf(raised.position, 3)] = raised.player

\* The board after the loop has applied the token pos_str' for
\* current_player; the board itself if the token denotes no empty cell.
BoardAfterMove ==
    LET n == board_size
        p == Position(pos_str')
    IN  IF PlainNumber(pos_str') /\ p \in 1..(n * n) /\ board[CellOf(p, n)] = Empty
        THEN [board EXCEPT ![CellOf(p, n)] = current_player]
        ELSE board

\* C23: when the move that fills the last empty cell also completes a line,
\* the round is recorded as a win of the player who moved, never as a draw;
\* a draw is recorded only for a full board without a complete line, and a
\* win only for a board with a line of the player who moved.
C23_WinBeforeDraw ==
    [][(op' = "play" /\ saved' # << >>)
        => \A final \in {BoardAfterMove} :
              /\ final # board
              /\ (Full(final, board_size) /\ HasCompleteLine(final, board_size))
                    => /\ saved'[1].result = "win"
                       /\ saved'[1].winner = current_player
              /\ saved'[1].result = "draw"
                    => Full(final, board_size) /\ ~HasCompleteLine(final, board_size)
              /\ saved'[1].result = "win"
                    => LineOf(final, board_size, current_player)
              /\ saved'[1].result \in {"win", "draw"}]_vars

\* play() has returned from a 3 x 3 round won by the ninth move: the board
\* is full and the record says win.
C23_Witness ==
    /\ pc = "returned" /\ op = "play" /\ board_size = 3
    /\ Len(saved) = 1 /\ saved[1].result = "win" /\ saved[1].moves = 9
    /\ Full(board, 3) /\ HasCompleteLine(board, 3)

CountOf(b, n, m) == Cardinality({cell \in Cells(n) : b[cell] = m})

\* C24: in every state of the loop winner_count is the number of marked
\* cells and X has as many marks as O or one more; whenever the loop asks
\* for a move X is to move if and only if the two have equally many.  An
\* iteration that raises leaves the board, winner_count and current_player
\* as they were, so a rejected move costs no turn.
C24_MarksAlternate ==
    /\ [](/\ winner_count = NumberOfMarks(board, board_size)
          /\ CountOf(board, board_size, "X") - CountOf(board, board_size, "O") \in {0, 1}
          /\ pc = "loop"
                => (current_player = "X"
                        <=> CountOf(board, board_size, "X") = CountOf(board, board_size, "O")))
    /\ [][(op' = "play" /\ raised'.type # "None")
            => /\ board' = board
               /\ winner_count' = winner_count
               /\ current_player' = current_player]_vars

\* The loop asks O for a move again after it has rejected O's token 0 on a
\* 3 x 3 board with two X and one O.
C24_Witness ==
    /\ pc = "loop" /\ op = "play" /\ board_size = 3
    /\ raised.type = "InvalidPositionError" /\ raised.position = 0
    /\ current_player = "O"
    /\ CountOf(board, 3, "X") = 2 /\ CountOf(board, 3, "O") = 1

-----------------------------------------------------------------------------
(* The game against the bot *)

\* The iteration that starts in the current state is the bot's: the game
\* is against the bot and change_bot_play says so.
BotTurn == pc = "loop" /\ is_play_bot = "True" /\ change_bot_play = "bot"

\* C25: against the bot, whenever the loop starts an iteration it is the
\* human's turn (change_bot_play 'player') if and only if X is to move and
\* the bot's if and only if O is, after rejected tokens and after replays as
\* well; the bot's flag is never set in a game of two players or before the
\* mode is chosen.  So every mark the bot places is an O and every mark the
\* human places against it is an X.
C25_BotPlaysO ==
    /\ [](change_bot_play \in {"player", "bot"})
    /\ []((pc = "loop" /\ is_play_bot = "True")
            => /\ change_bot_play = "player" <=> current_player = "X"
               /\ change_bot_play = "bot" <=> current_player = "O")
    /\ []((pc = "loop" /\ is_play_bot # "True") => change_bot_play = "player")
    /\ [][(op' = "play" /\ is_play_bot = "True")
            => \A final \in {BoardAfterMove} :
               \A cell \in Cells(board_size) :
                  final[cell] # board[cell]
                      => final[cell] = (IF BotTurn THEN "O" ELSE "X")]_vars

\* The bot has won a round with its O, the human has asked for another,
\* and the new round starts with the human's turn and X.
C25_Witness ==
    /\ pc = "loop" /\ op = "play" /\ mode = "True" /\ is_play_bot = "True"
    /\ Len(saved) = 1 /\ saved[1].mode = "Bot" /\ saved[1].winner = "O"
    /\ board = EmptyBoard(board_size)
    /\ change_bot_play = "player" /\ current_player = "X"

\* C26: the loop calls _get_ai_move only on a board with no complete line
\* and an empty cell; there it never returns None, every cell it can return
\* is an empty cell of the board and r*n+c+1 is a position in 1..n*n.  The
\* bot's iteration raises nothing, neither InvalidPositionError nor
\* CellOccupiedError nor the TypeError of a None, and places exactly one O,
\* on the cell whose position it has written to pos_str.
C26_BotTurnPlacesOneO ==
    /\ [](BotTurn
            => /\ InProgress(board, board_size)
               /\ None \notin get_ai_move(Self)
               /\ \A cell \in get_ai_move(Self) :
                     /\ cell \in Cells(board_size)
                     /\ board[cell] = Empty
                     /\ cell[1] * board_size + cell[2] + 1 \in 1..(board_size * board_size))
    /\ [][(BotTurn /\ op' = "play")
            => \A final \in {BoardAfterMove} :
                  /\ raised' = NoException
                  /\ pc' # "crashed"
                  /\ \E cell \in get_ai_move(Self) :
                        /\ pos_str' = str(cell[1] * board_size + cell[2] + 1)
                        /\ final = [board EXCEPT ![cell] = "O"]
                  /\ NumberOfMarks(final, board_size) = NumberOfMarks(board, board_size) + 1
                  /\ \/ saved' = << >> /\ pc' = "loop" /\ board' = final
                                   /\ change_bot_play' = "player"
                     \/ saved' # << >> /\ pc' = "returned" /\ board' = final
                     \/ saved' # << >> /\ pc' = "loop" /\ RoundStart']_vars

\* The bot has placed its first O on a 3 x 3 board, on the center, and the
\* turn has gone back to the human.
C26_Witness ==
    /\ pc = "loop" /\ op = "play" /\ board_size = 3 /\ is_play_bot = "True"
    /\ pos_str = << "5" >>
    /\ board[<< 1, 1 >>] = "O"
    /\ winner_count = 2
    /\ change_bot_play = "player"

-----------------------------------------------------------------------------
(* Rounds: their start, their end, the abort *)

\* C27: every round starts alike, the first one and every one that the
\* replay after a win or a draw starts: the board is empty, winner_count is
\* 0, X is to move, no line is recorded, and the human moves first
\* (change_bot_play 'player'); is_play_bot is the mode the game was
\* constructed with.  The _switch_player that follows the replay changes
\* neither the player nor the bot's flag and takes reset_player back, and
\* until the first mark of the round is placed nothing of this changes.
C27_RoundsStartAlike ==
    /\ []((pc = "loop" /\ (op = "None" \/ saved # << >>))
            => /\ RoundStart
               /\ change_bot_play = "player"
               /\ is_play_bot = mode)
    /\ []((pc = "loop" /\ winner_count = 0)
            => RoundStart /\ change_bot_play = "player")
    /\ [](pc = "loop" => reset_player = FALSE)
    /\ [][(op' = "play" /\ saved' # << >> /\ pc' = "loop")
            => /\ current_player' = "X"
               /\ change_bot_play' = "player"
               /\ reset_player' = FALSE
               /\ board' = EmptyBoard(board_size)
               /\ winner_count' = 0]_vars

\* A round of two players on a 3 x 3 board has ended in a draw, which X's
\* ninth move made, and the next round starts with X again.
C27_Witness ==
    /\ pc = "loop" /\ op = "play" /\ board_size = 3
    /\ Len(saved) = 1 /\ saved[1].mode = "PVP" /\ saved[1].result = "draw"
    /\ mode = "False" /\ is_play_bot = "False"
    /\ RoundStart /\ change_bot_play = "player"

\* play() has been left without a finished round: by an empty token or by
\* an exception that the loop does not catch.
Abandoned == pc = "crashed" \/ (pc = "returned" /\ saved = << >>)

\* Some input of the iteration that play() is about to run applies a move.
CanApplyMove ==
    \E ask_play_with_bot \in (IF is_play_bot = "None" THEN Answers ELSE {<< "n" >>}) :
        LET bot_turn == /\ mode_selection(Self, ask_play_with_bot).is_play_bot = "True"
                           \/ is_play_bot = "True"
                        /\ change_bot_play = "bot"
        IN  \E token \in (IF bot_turn THEN {<< >>} ELSE HumanTokens),
               move_bot \in (IF bot_turn THEN get_ai_move(Self) ELSE {None}) :
              \E out \in {play_iteration(Self, ask_play_with_bot, token, move_bot, << "n" >>)} :
                  out.raised.type = "None" /\ out.self.pos_str # << >>

\* C28: winner_count never exceeds n*n; when it is n*n the board is full,
\* the round is over and the loop asks for no further move; every applied
\* move adds one to it; while the loop runs a move can be applied.  If the prompts are answered with a legal move in
\* the end and play() is not abandoned, then again and again a round ends,
\* won or drawn: no round goes on for ever, against the bot or between two
\* players.
C28_RoundsEnd ==
    /\ [](winner_count <= board_size * board_size)
    /\ [](winner_count = board_size * board_size
            => /\ Full(board, board_size)
               /\ pc = "returned" /\ saved # << >>)
    /\ [][(op' = "play" /\ board' # board /\ board' # EmptyBoard(board_size))
            => winner_count' = winner_count + 1]_vars
    /\ [](pc = "loop" => CanApplyMove)
    /\ ([]~Abandoned) => []<>(saved # << >>)

\* play() has returned from a drawn 3 x 3 round against the bot:
\* winner_count has reached 9.
C28_Witness ==
    /\ pc = "returned" /\ op = "play" /\ board_size = 3
    /\ winner_count = 9
    /\ Len(saved) = 1 /\ saved[1].result = "draw" /\ saved[1].mode = "Bot"

\* The iteration that play() is about to run reads a line from the human:
\* the game is between two players, or against the bot with the flag on
\* 'player'.  selected is the game after _mode_selection.
HumanPrompt(selected) ==
    ~(selected.is_play_bot = "True" /\ selected.change_bot_play = "bot")

\* C29: whenever the loop is about to prompt the human, in any mode and
\* after any moves, rejected lines and replays, the empty line makes play()
\* return at once: the board, winner_count, current_player and the other
\* fields stay as they are, nothing is raised and no record is saved.  A
\* step of the loop that leaves the empty line in pos_str is such a step and
\* is never one of the bot's turn, whose pos_str is the number of the cell
\* chosen.  Once play() has returned no further iteration is run.
C29_EmptyLineEndsPlay ==
    /\ [](pc = "loop" =>
            \A ask_play_with_bot \in (IF is_play_bot = "None" THEN Answers ELSE {<< "n" >>}) :
               \A selected \in {IF is_play_bot = "None"
                                 THEN mode_selection(Self, ask_play_with_bot)
                                 ELSE Self} :
                  HumanPrompt(selected) =>
                     /\ InProgress(board, board_size)
                     /\ play_iteration(Self, ask_play_with_bot, << >>, None, << "y" >>)
                          = Outcome([selected EXCEPT !.pos_str = << >>], "returned",
                                    NoException, << >>))
    /\ [][(op' = "play" /\ pos_str' = << >>)
            => /\ ~BotTurn
               /\ pc' = "returned" /\ raised' = NoException /\ saved' = << >>
               /\ board' = board /\ winner_count' = winner_count
               /\ current_player' = current_player
               /\ winning_coords' = winning_coords]_vars
    /\ [][BotTurn => pos_str' \in {str(p) : p \in 1..(board_size * board_size)}]_vars
    /\ [](pc = "returned" => ~ENABLED Next)

\* play() has returned on the empty line typed by the human in the middle
\* of a 3 x 3 round against the bot: three marks stay on the board, X is
\* still to move and nothing has been saved.
C29_Witness ==
    /\ pc = "returned" /\ op = "play" /\ pos_str = << >>
    /\ board_size = 3 /\ is_play_bot = "True" /\ change_bot_play = "player"
    /\ winner_count = 2 /\ CountOf(board, 3, "X") = 1 /\ CountOf(board, 3, "O") = 1
    /\ current_player = "X"
    /\ saved = << >> /\ raised = NoException

-----------------------------------------------------------------------------
(* Positions and cells *)

\* The cells whose content differs between the boards before and after
MarkedCells(before, after, n) == {cell \in Cells(n) : after[cell] # before[cell]}

\* The cells that _try_make_move marks when it is given the position p as
\* the console gives it, in decimal digits
CellsMarkedAt(self, p) ==
    LET moved == try_make_move(self, str(p))
    IN  IF moved.raised.type = "None"
        THEN MarkedCells(self.board, moved.self.board, self.board_size)
        ELSE {}

\* The line that bot_mode leaves in pos_str on the bot's turn, the bot
\* having chosen cell
BotLine(self, cell) ==
    bot_mode([self EXCEPT !.change_bot_play = "bot"], << >>, cell).self.pos_str

\* C30: on a newly constructed board of any size n in 2..9, _try_make_move
\* given the position p in 1..n*n marks exactly the cell
\* ((p-1) div n, (p-1) mod n); different positions mark different cells and
\* every cell is marked by some position.  bot_mode writes the cell (r, c)
\* as the decimal digits of r*n + c + 1, the position that marks (r, c):
\* _try_make_move given bot_mode's line marks exactly the cell the bot
\* chose, and the line written for the cell of position p is p again.
C30_PositionsAndCellsCorrespond ==
    (pc = "constructed" /\ op = "__init__") =>
        \A n \in {board_size}, game \in {Self} :
           /\ n \in MinSize..MaxBoardSize
           /\ \A p \in 1..(n * n) :
                 /\ CellsMarkedAt(game, p) = {CellOf(p, n)}
                 /\ BotLine(game, CellOf(p, n)) = str(p)
                 /\ \A q \in 1..(n * n) :
                       CellsMarkedAt(game, q) = CellsMarkedAt(game, p) => q = p
           /\ \A cell \in Cells(n) :
                 /\ \E p \in 1..(n * n) : CellsMarkedAt(game, p) = {cell}
                 /\ BotLine(game, cell) = str(cell[1] * n + cell[2] + 1)
                 /\ \E moved \in {try_make_move(game, BotLine(game, cell))} :
                       /\ moved.raised = NoException
                       /\ MarkedCells(game.board, moved.self.board, n) = {cell}
                       /\ moved.self.board[cell] = game.current_player

\* A newly constructed 9 x 9 game: position 44 marks the cell (4, 7) and
\* bot_mode writes (4, 7) as "44"; position 81 marks the last cell (8, 8).
C30_Witness ==
    /\ pc = "constructed" /\ op = "__init__" /\ board_size = 9
    /\ CellsMarkedAt(Self, 44) = {<< 4, 7 >>}
    /\ BotLine(Self, << 4, 7 >>) = << "4", "4" >>
    /\ CellsMarkedAt(Self, 81) = {<< 8, 8 >>}
    /\ BotLine(Self, << 8, 8 >>) = << "8", "1" >>

-----------------------------------------------------------------------------
(* The smallest board *)

\* The catalog of size n has a line whose cells are exactly the two cells
TwoCellsFormALine(n, first, second) ==
    \E i \in 1..Len(Catalog[n]) : CellsOfLine(Catalog[n][i]) = {first, second}

\* C31: on a 2 x 2 board any two different cells are the cells of a line of
\* the catalog.  So in every state that play() reaches there, in a game of
\* two players and against the bot, after rejected lines and replays, at
\* most three marks are on the board, a board with three marks holds two X
\* in a line, no board is full, O never has a line, and every record that
\* is saved is that of a win of X after three moves: none is a draw.
C31_NoDrawOnTwoByTwo ==
    board_size = 2 =>
        /\ \A first \in Cells(2), second \in Cells(2) :
               first # second => TwoCellsFormALine(2, first, second)
        /\ winner_count <= 3
        /\ winner_count = NumberOfMarks(board, 2)
        /\ ~Full(board, 2)
        /\ ~LineOf(board, 2, "O")
        /\ winner_count = 3 =>
               /\ CountOf(board, 2, "X") = 2 /\ LineOf(board, 2, "X")
               /\ pc = "returned" /\ saved # << >>
        /\ \A i \in 1..Len(saved) :
               /\ saved[i].result = "win" /\ saved[i].winner = "X"
               /\ saved[i].moves = 3 /\ saved[i].board_size = 2

\* play() has returned from a 2 x 2 round against the bot: X has won with
\* the third mark, on the anti-diagonal.
C31_Witness ==
    /\ pc = "returned" /\ op = "play" /\ board_size = 2
    /\ board = [cell \in Cells(2) |->
                   CASE cell = << 0, 1 >> -> "X" [] cell = << 1, 0 >> -> "X"
                     [] cell = << 0, 0 >> -> "O" [] OTHER -> Empty]
    /\ winner_count = 3
    /\ saved = << [mode |-> "Bot", board_size |-> 2, moves |-> 3, result |-> "win",
                   winner |-> "X"] >>

-----------------------------------------------------------------------------
(* The statistics of the history *)

\* The records of the history that are of the mode
RecordsOfMode(parsed_data, mode_name) ==
    {i \in 1..Len(parsed_data) : parsed_data[i].mode = mode_name}

\* C32: for every history and every mode that winrate is asked for, the
\* counts of wins of X, wins of O and draws that it computes its
\* percentages from add up to the number of records of that mode, and each
\* is the count that show_stats prints for that mode and result.
\* This fails: winrate counts the draws by the group winner, which is None
\* in the record of a draw, so its count of draws is 0 for every history.
C32_WinrateCountsEveryGame ==
    (pc = "done" /\ op = "winrate" /\ ret.printed # "usage") =>
        \E stats \in {show_stats(saved)} :
           /\ ret.win_x + ret.win_o + ret.draws
                = Cardinality(RecordsOfMode(saved, ret.mode_name))
           /\ ret.win_x = IF ret.mode_name = "Bot" THEN stats.win_x_bot ELSE stats.win_x_pvp
           /\ ret.win_o = IF ret.mode_name = "Bot" THEN stats.win_o_bot ELSE stats.win_o_pvp
           /\ ret.draws = IF ret.mode_name = "Bot" THEN stats.draws_bot ELSE stats.draws_pvp

-----------------------------------------------------------------------------
(* The two engines *)

\* The fields of the game object that both engines have
Shared(self) ==
    [board_size |-> self.board_size, board |-> self.board,
     winning_coords |-> self.winning_coords, current_player |-> self.current_player,
     change_bot_play |-> self.change_bot_play, is_play_bot |-> self.is_play_bot,
     winner_count |-> self.winner_count, pos_str |-> self.pos_str]

\* What an iteration leaves behind in the fields that both engines have
SharedOutcome(out) ==
    [self |-> Shared(out.self), pc |-> out.pc, raised |-> out.raised,
     saved |-> out.saved]

\* The iteration that play() is about to run is one of the bot's: the game
\* is, or by the answer to the mode question becomes, one against the bot,
\* and the flag is on 'bot'.
BotMoves(game, ask_play_with_bot) ==
    /\ \/ game.is_play_bot = "True"
       \/ game.is_play_bot = "None"
          /\ mode_selection(game, ask_play_with_bot).is_play_bot = "True"
    /\ game.change_bot_play = "bot"

\* C33: a game of the package constructed with mode None starts in the
\* state of the game of p4.py of the same size, and from every state that
\* its play() reaches, on every input of the next iteration (the answer to
\* the mode question, the line typed or the cell the bot chooses, the
\* answer to the replay question) the iteration of p4.py leaves the same
\* fields, the same records saved, and the same way on: into the next
\* iteration, out of play(), or out with the same exception.  So on the
\* same inputs the two go through the same boards, players, counts and
\* turns and save the same records.
C33_EnginesAgree ==
    (mode = "None" /\ pc = "loop") =>
        \A game \in {Self} :
           /\ op = "None" => Shared(game) = Shared(p4_init(board_size))
           /\ reset_player = FALSE
           /\ \A ask_play_with_bot \in (IF is_play_bot = "None" THEN Answers ELSE {<< "n" >>}) :
                 \A bot_turn \in {BotMoves(game, ask_play_with_bot)} :
                    \A token \in (IF bot_turn THEN {<< >>} ELSE HumanTokens),
                       move_bot \in (IF bot_turn THEN get_ai_move(game) ELSE {None}) :
                       \A packaged \in {play_iteration(game, ask_play_with_bot, token,
                                                        move_bot, << "n" >>)} :
                          /\ SharedOutcome(p4_play_iteration(game, ask_play_with_bot, token,
                                                             move_bot, << "n" >>))
                               = SharedOutcome(packaged)
                          /\ packaged.saved # << >> =>
                                \A ask_replay \in Answers :
                                   SharedOutcome(p4_play_iteration(game, ask_play_with_bot,
                                                                   token, move_bot, ask_replay))
                                    = SharedOutcome(play_iteration(game, ask_play_with_bot,
                                                                   token, move_bot, ask_replay))

\* A game of the package constructed with mode None has been replayed
\* after a win of the bot on a 3 x 3 board: the mode is asked again, X is
\* to move, and the next iteration is compared with that of p4.py.
C33_Witness ==
    /\ mode = "None" /\ pc = "loop" /\ op = "play" /\ board_size = 3
    /\ Len(saved) = 1 /\ saved[1].mode = "Bot" /\ saved[1].winner = "O"
    /\ RoundStart /\ is_play_bot = "None" /\ change_bot_play = "player"
    /\ p4_play_iteration(Self, << "y" >>, << "5" >>, None, << "n" >>)
        = play_iteration(Self, << "y" >>, << "5" >>, None, << "n" >>)

====
